---- MODULE Spec2Model ----
(***************************************************************************)
(* Model of the trading-signal automation: the historical replay          *)
(* (backtest/backtest_engine.py, backtest/simple_backtest.py), the live    *)
(* trader and its order monitor (tradingbotTest.py) and the signal         *)
(* hand-over (automatedtrading.py).                                        *)
(*                                                                         *)
(* Units.  Prices are integers on a grid of 1000 around a signal entry of  *)
(* 10000, so that every percentage round trip of the source               *)
(* (price -> percent -> price) is exact in integer arithmetic.            *)
(* Percentages are kept in basis points (1 percent = 100).  Fractions of   *)
(* a position are kept in thousandths (1.0 = FullPosition).  PnL is kept   *)
(* as the numerator                                                        *)
(*   direction * (price - entry) * fraction                                *)
(*             * POSITION_SIZE_USDT * LEVERAGE / 100                       *)
(* i.e. the source's pnl multiplied by 10 * entry_price, which is a        *)
(* positive constant during one trade: signs and sums are preserved.       *)
(***************************************************************************)
EXTENDS Integers, Sequences, FiniteSets, TLC

VARIABLES
    signal_row,     \* backtest: the CSV row being replayed
    bt,             \* backtest: locals of backtest_signal / simulate_trade
    live,           \* live: locals of execute_trade (main thread)
    broker,         \* live: the broker's orders and position
    mon,            \* live: locals of the monitor thread
    active_monitors,\* live: BinanceFuturesTrader.active_monitors
    ledger,         \* ledger replay: locals of simple_backtest.main
    handoff,        \* place_order_from_signal: signal in, trader arguments out
    threads,        \* live: several trades, their execute_trade and monitor threads
    system,         \* AutomatedTradingSystem: process_message and its fields
    pool            \* run_backtest: the thread pool and the price-cache file

vars == <<signal_row, bt, live, broker, mon, active_monitors, ledger, handoff, threads, system, pool>>

\* Python's None / pandas NaN for an absent price, time or order id.
None == 0

(***************************************************************************)
(* Bounds and program constants                                            *)
(***************************************************************************)

\* remaining_position = 1.0, in thousandths
FullPosition == 1000
\* `remaining_position < 0.01`, in thousandths
ClosedThreshold == 10
\* config_backtest.py, in basis points
DEFAULT_TP_PERCENT == 250
DEFAULT_SL_PERCENT == 500
POSITION_SIZE_USDT == 50
LEVERAGE == 20
\* one hundred percent, in basis points
HundredPercent == 10000

\* config_backtest.USE_BETTER_MARKET_PRICE
USE_BETTER_MARKET_PRICE == TRUE

\* hours_limit, in minutes of bar time (the source passes 12 hours)
HoursLimit == 4
\* the timestamp of the last bar the price data can hold (minutes)
MaxTime == 8
\* the signal's timestamp, after the time-zone conversion (minutes);
\* timestamp 1 is a bar before the signal
SignalTime == 2

Sides == {"long", "short"}
\* the one signal entry price of the model (see Units)
SignalEntry == 10 * 1000

\* the price grid of the bars of a signal, by side
BarLevels(side) ==
    IF side = "long" THEN {8000, 9000, 10000, 11000, 12000, 13000, 14000}
                     ELSE {6000, 7000, 8000, 9000, 10000, 11000, 12000}

\* the take-profit columns tp1..tp4 of a CSV row, by side: a full ladder,
\* a ladder with repeated prices, a partial ladder and an unordered one
TpChoices(side) ==
    IF side = "long"
    THEN { <<11000, 12000, 13000, 14000>>, <<11000, 12000, 12000, 12000>>,
           <<11000, 12000, None, None>>,   <<12000, 11000, 13000, 14000>> }
    ELSE { <<9000, 8000, 7000, 6000>>,     <<9000, 8000, 8000, 8000>>,
           <<9000, 8000, None, None>>,     <<8000, 9000, 7000, 6000>> }

\* the stop_loss column of a CSV row, by side (None: the column is empty)
SlChoices(side) == IF side = "long" THEN {9000, None} ELSE {11000, None}

\* the CSV rows replayed
RowsOf(s) ==
    { [side |-> s, entry |-> SignalEntry, stop_loss |-> sl, tp |-> tp, datetime |-> SignalTime] :
        sl \in SlChoices(s), tp \in TpChoices(s) }
SignalRows == RowsOf("long") \cup RowsOf("short")

\* no row is being replayed
SignalIdle ==
    [side |-> "long", entry |-> None, stop_loss |-> None,
     tp |-> <<None, None, None, None>>, datetime |-> None]

\* one 1-minute bar at `ts` on the grid of `side`
Bars(side, ts) ==
    { row \in [timestamp : {ts}, high : BarLevels(side), low : BarLevels(side),
                close : BarLevels(side)] :
        row.low <= row.close /\ row.close <= row.high }

(***************************************************************************)
(* backtest_engine.py: pure helpers                                        *)
(***************************************************************************)

Abs(x) == IF x < 0 THEN 0 - x ELSE x

\* calculate_default_tp_sl: (tp_price, sl_price) from percentages
calculate_default_tp_sl(entry_price, side, tp_percent, sl_percent) ==
    IF side = "long"
    THEN << (entry_price * (HundredPercent + tp_percent)) \div HundredPercent,
            (entry_price * (HundredPercent - sl_percent)) \div HundredPercent >>
    ELSE << (entry_price * (HundredPercent - tp_percent)) \div HundredPercent,
            (entry_price * (HundredPercent + sl_percent)) \div HundredPercent >>

\* a selection that takes the market price also when it equals the signal's
select_better_entry_price_or_equal(signal_entry_price, market_price, side) ==
    IF market_price = None THEN << signal_entry_price, FALSE >>
    ELSE IF side = "long" /\ market_price <= signal_entry_price
         THEN << market_price, TRUE >>
    ELSE IF side # "long" /\ market_price >= signal_entry_price
         THEN << market_price, TRUE >>
    ELSE << signal_entry_price, FALSE >>

\* select_better_entry_price: (selected_entry_price, used_market_price)
select_better_entry_price(signal_entry_price, market_price, side) ==
    IF market_price = None THEN << signal_entry_price, FALSE >>
    ELSE IF side = "long" /\ market_price < signal_entry_price
         THEN << market_price, TRUE >>
    ELSE IF side # "long" /\ market_price > signal_entry_price
         THEN << market_price, TRUE >>
    ELSE << signal_entry_price, FALSE >>

\* simple_backtest.backtest_single_signal_wrapper: has_tp and has_sl
has_tp(row) == \A i \in 1..4 : row.tp[i] # None
has_sl(row) == row.stop_loss # None

\* np.mean(tp_prices) is kept as the sum of the four prices; the percentage
\* ((avg_tp - entry) / entry) * 100 is then (sum - 4 entry) / (4 entry).
SumTp(row) == row.tp[1] + row.tp[2] + row.tp[3] + row.tp[4]

\* backtest_single_signal_wrapper: the (tp_percent, sl_percent) it passes on
wrapper_percents(row) ==
    IF has_tp(row) /\ has_sl(row)
    THEN IF row.side = "long"
         THEN << ((SumTp(row) - 4 * row.entry) * HundredPercent) \div (4 * row.entry),
                 ((row.entry - row.stop_loss) * HundredPercent) \div row.entry >>
         ELSE << ((4 * row.entry - SumTp(row)) * HundredPercent) \div (4 * row.entry),
                 ((row.stop_loss - row.entry) * HundredPercent) \div row.entry >>
    ELSE << DEFAULT_TP_PERCENT, DEFAULT_SL_PERCENT >>

\* backtest_single_signal_wrapper: the tp_levels argument (None when absent)
wrapper_tp_levels(row) ==
    IF has_tp(row) /\ has_sl(row) THEN row.tp ELSE << >>

\* a ladder of four equal quarters of the original position, the sizes the
\* live trader gives its take-profit orders
tp_targets_quarters(tp_levels, tp_price, entry_price) ==
    IF Len(tp_levels) = 4
    THEN << [price |-> tp_levels[1], close_pct |-> 25,  new_sl |-> entry_price],
            [price |-> tp_levels[2], close_pct |-> 33,  new_sl |-> tp_levels[1]],
            [price |-> tp_levels[3], close_pct |-> 50,  new_sl |-> tp_levels[2]],
            [price |-> tp_levels[4], close_pct |-> 100, new_sl |-> tp_levels[3]] >>
    ELSE << [price |-> tp_price, close_pct |-> 100, new_sl |-> None] >>

\* a ladder whose stop goes to the entry price at the first tier and stays
\* there
tp_targets_breakeven(tp_levels, tp_price, entry_price) ==
    IF Len(tp_levels) = 4
    THEN << [price |-> tp_levels[1], close_pct |-> 50,  new_sl |-> entry_price],
            [price |-> tp_levels[2], close_pct |-> 50,  new_sl |-> entry_price],
            [price |-> tp_levels[3], close_pct |-> 50,  new_sl |-> entry_price],
            [price |-> tp_levels[4], close_pct |-> 100, new_sl |-> entry_price] >>
    ELSE << [price |-> tp_price, close_pct |-> 100, new_sl |-> None] >>

\* a ladder whose single tier closes half and moves the stop to the entry
tp_targets_single_half(tp_levels, tp_price, entry_price) ==
    IF Len(tp_levels) = 4
    THEN << [price |-> tp_levels[1], close_pct |-> 50,  new_sl |-> entry_price],
            [price |-> tp_levels[2], close_pct |-> 50,  new_sl |-> tp_levels[1]],
            [price |-> tp_levels[3], close_pct |-> 50,  new_sl |-> tp_levels[2]],
            [price |-> tp_levels[4], close_pct |-> 100, new_sl |-> tp_levels[3]] >>
    ELSE << [price |-> tp_price, close_pct |-> 50, new_sl |-> entry_price] >>

\* a ladder that moves the stop to the price of the tier just closed
tp_targets_stop_to_tier(tp_levels, tp_price, entry_price) ==
    IF Len(tp_levels) = 4
    THEN << [price |-> tp_levels[1], close_pct |-> 50,  new_sl |-> tp_levels[1]],
            [price |-> tp_levels[2], close_pct |-> 50,  new_sl |-> tp_levels[2]],
            [price |-> tp_levels[3], close_pct |-> 50,  new_sl |-> tp_levels[3]],
            [price |-> tp_levels[4], close_pct |-> 100, new_sl |-> tp_levels[4]] >>
    ELSE << [price |-> tp_price, close_pct |-> 100, new_sl |-> None] >>

\* simulate_trade: the ladder
tp_targets(tp_levels, tp_price, entry_price) ==
    IF Len(tp_levels) = 4
    THEN << [price |-> tp_levels[1], close_pct |-> 50,  new_sl |-> entry_price],
            [price |-> tp_levels[2], close_pct |-> 50,  new_sl |-> tp_levels[1]],
            [price |-> tp_levels[3], close_pct |-> 50,  new_sl |-> tp_levels[2]],
            [price |-> tp_levels[4], close_pct |-> 100, new_sl |-> tp_levels[3]] >>
    ELSE << [price |-> tp_price, close_pct |-> 100, new_sl |-> None] >>

\* pnl of closing `amount` (thousandths) at `price`, as the numerator
\* described in the header
PnlOf(side, entry_price, price, amount) ==
    (IF side = "long" THEN price - entry_price ELSE entry_price - price)
        * amount * ((POSITION_SIZE_USDT * LEVERAGE) \div 100)

(***************************************************************************)
(* tradingbotTest.py: the broker as the trader sees it                     *)
(***************************************************************************)

\* the order ids the broker hands out to one trade: the entry order, the
\* stop order and the four take-profit orders
OrderId == [entry |-> 1, sl |-> 2, tp |-> <<3, 4, 5, 6>>]
AllOrderIds == {OrderId.entry, OrderId.sl} \cup {OrderId.tp[i] : i \in 1..4}

ActiveStatuses == {"NEW", "PARTIALLY_FILLED"}

NoOrder == [status |-> "none", price |-> None, qty |-> 0]

BrokerIdle == [orders |-> [id \in AllOrderIds |-> NoOrder], position |-> 0]

\* a POST /fapi/v1/order the broker accepted
PlaceOrder(b, id, price, qty) ==
    [b EXCEPT !.orders[id] = [status |-> "NEW", price |-> price, qty |-> qty]]

\* a DELETE /fapi/v1/order reaches the broker: an open order is cancelled,
\* any other order makes the request fail
CanCancel(b, id) == b.orders[id].status \in ActiveStatuses
CancelAtBroker(b, id) == [b EXCEPT !.orders[id].status = "CANCELED"]

\* round_quantity(quantity * 0.25, step_size), quantities counted in steps:
\* Python's round() goes to the nearest step, ties to the even one
round_quarter(quantity) ==
    LET q == quantity \div 4
        r == quantity % 4
    IN IF r < 2 THEN q
       ELSE IF r > 2 THEN q + 1
       ELSE IF q % 2 = 0 THEN q ELSE q + 1

(***************************************************************************)
(* tradingbotTest.py: execute_trade (the calling thread)                   *)
(***************************************************************************)

\* the position size of the trade, in steps of the symbol's LOT_SIZE
LiveQuantity == 8
\* the number of status checks wait_for_order_fill makes before wait_timeout
MaxChecks == 2

\* the arguments of execute_trade
LiveArgs ==
    { [direction |-> "LONG", entry_price |-> SignalEntry, quantity |-> LiveQuantity,
       stop_loss_price |-> 9000, tp |-> <<11000, 12000, 13000, 14000>>],
      [direction |-> "SHORT", entry_price |-> SignalEntry, quantity |-> LiveQuantity,
       stop_loss_price |-> 11000, tp |-> <<9000, 8000, 7000, 6000>>] }

LiveIdle ==
    [pc |-> "idle", args |-> [direction |-> "LONG", entry_price |-> None, quantity |-> 0,
                              stop_loss_price |-> None, tp |-> <<None, None, None, None>>],
     checks |-> 0, order_filled |-> FALSE, position |-> None,
     tp_i |-> 1, sl_order_id |-> None, tp_order_ids |-> << >>,
     returned |-> "none", why |-> "none", cancels |-> {}]

\* the locals of monitor_and_manage_orders; `obs` is what the last poll saw
NoObs == [polled |-> FALSE, filled_tps |-> 0, active_tp_ids |-> {},
          sl_filled |-> FALSE, sl_active |-> FALSE, failed |-> {}]

MonIdle ==
    [pc |-> "idle", sl_order_id |-> None, tp_order_ids |-> << >>,
     obs |-> NoObs, cancels |-> {}, cancel_failed |-> {}, snapshot |-> << >>]

\* execute_trade returns
Return(l, value, why) == [l EXCEPT !.pc = "done", !.returned = value, !.why = why]

\* execute_trade, lines 536-579: symbol information, leverage, entry order
ET_Start ==
    /\ live.pc = "start"
    /\ \E outcome \in {"no_symbol_info", "leverage_failed", "entry_order_failed", "placed"} :
         IF outcome = "placed"
         THEN /\ broker' = PlaceOrder(broker, OrderId.entry, live.args.entry_price,
                                      live.args.quantity)
              /\ live' = [live EXCEPT !.pc = "wait"]
         ELSE /\ live' = Return(live, FALSE, outcome)
              /\ UNCHANGED broker
    /\ UNCHANGED <<signal_row, bt, mon, active_monitors, ledger, handoff, threads, system, pool>>

\* wait_for_order_fill, lines 173-193: one status check of the loop.
\* `reached` is whether the request got an answer (_make_request returns
\* None otherwise).
ET_WaitCheck ==
    /\ live.pc = "wait"
    /\ live.checks < MaxChecks
    /\ \E reached \in BOOLEAN :
         LET status == broker.orders[OrderId.entry].status
         IN IF reached /\ status = "FILLED"
            THEN live' = [live EXCEPT !.pc = "verify", !.order_filled = TRUE]
            ELSE IF reached /\ status \in {"CANCELED", "REJECTED", "EXPIRED"}
            THEN live' = Return(live, FALSE, "entry_not_filled")
            ELSE live' = [live EXCEPT !.checks = @ + 1]
    /\ UNCHANGED <<signal_row, bt, broker, mon, active_monitors, ledger, handoff, threads, system, pool>>

\* wait_for_order_fill, lines 195-198, and execute_trade, lines 585-588:
\* the timeout cancels the entry order, whatever the cancel answers
ET_WaitTimeout ==
    /\ live.pc = "wait"
    /\ live.checks >= MaxChecks
    /\ \E reached \in BOOLEAN :
         broker' = IF reached /\ CanCancel(broker, OrderId.entry)
                   THEN CancelAtBroker(broker, OrderId.entry) ELSE broker
    /\ live' = [Return(live, FALSE, "entry_not_filled") EXCEPT
                    !.cancels = @ \cup {OrderId.entry}]
    /\ UNCHANGED <<signal_row, bt, mon, active_monitors, ledger, handoff, threads, system, pool>>

\* an execute_trade that goes on without a confirmed position
after_verify_unchecked(l, position) ==
    [l EXCEPT !.pc = "place_sl", !.position = position]

\* execute_trade, lines 595-600: `if not position or
\* float(position['positionAmt']) == 0: ... return False`
after_verify(l, position) ==
    IF position # None
    THEN [l EXCEPT !.pc = "place_sl", !.position = position]
    ELSE Return(l, FALSE, "position_not_found")

\* execute_trade, lines 590-600: get_position_info; a request without an
\* answer gives None
ET_Verify ==
    /\ live.pc = "verify"
    /\ \E reached \in BOOLEAN :
         live' = after_verify(live, IF reached THEN broker.position ELSE None)
    /\ UNCHANGED <<signal_row, bt, broker, mon, active_monitors, ledger, handoff, threads, system, pool>>

\* an execute_trade that goes on to the take-profit orders whether or not
\* the stop order was placed
after_stop_loss_unchecked(l, placed) ==
    [l EXCEPT !.pc = "place_tp", !.sl_order_id = OrderId.sl,
              !.why = IF placed THEN @ ELSE "stop_loss_failed"]

\* execute_trade, lines 611-616: `if not sl_result: ... return False`
after_stop_loss(l, placed) ==
    IF placed THEN [l EXCEPT !.pc = "place_tp", !.sl_order_id = OrderId.sl]
    ELSE Return(l, FALSE, "stop_loss_failed")

\* execute_trade, lines 608-616: the stop order, for the whole quantity
ET_PlaceStopLoss ==
    /\ live.pc = "place_sl"
    /\ \E placed \in BOOLEAN :
         /\ broker' = IF placed
                      THEN PlaceOrder(broker, OrderId.sl, live.args.stop_loss_price,
                                      live.args.quantity)
                      ELSE broker
         /\ live' = after_stop_loss(live, placed)
    /\ UNCHANGED <<signal_row, bt, mon, active_monitors, ledger, handoff, threads, system, pool>>

\* execute_trade, lines 602-603 and 618-628: one take-profit order, for a
\* quarter of the quantity
ET_PlaceTakeProfit ==
    /\ live.pc = "place_tp"
    /\ live.tp_i <= 4
    /\ \E placed \in BOOLEAN :
         IF placed
         THEN /\ broker' = PlaceOrder(broker, OrderId.tp[live.tp_i], live.args.tp[live.tp_i],
                                      round_quarter(live.args.quantity))
              /\ live' = [live EXCEPT !.tp_i = @ + 1,
                                      !.tp_order_ids = Append(@, OrderId.tp[live.tp_i])]
         ELSE /\ live' = [live EXCEPT !.tp_i = @ + 1]
              /\ UNCHANGED broker
    /\ UNCHANGED <<signal_row, bt, mon, active_monitors, ledger, handoff, threads, system, pool>>

\* execute_trade, lines 630-634: no take-profit order was placed
ET_NoTakeProfit ==
    /\ live.pc = "place_tp"
    /\ live.tp_i > 4
    /\ Len(live.tp_order_ids) = 0
    /\ \E reached \in BOOLEAN :
         broker' = IF reached /\ CanCancel(broker, live.sl_order_id)
                   THEN CancelAtBroker(broker, live.sl_order_id) ELSE broker
    /\ live' = [Return(live, FALSE, "no_take_profit") EXCEPT
                    !.cancels = @ \cup {live.sl_order_id}]
    /\ UNCHANGED <<signal_row, bt, mon, active_monitors, ledger, handoff, threads, system, pool>>

\* execute_trade, lines 646-660: the monitor thread is started, or the
\* user declines monitoring
ET_StartMonitor ==
    /\ live.pc = "place_tp"
    /\ live.tp_i > 4
    /\ Len(live.tp_order_ids) > 0
    /\ \E monitor \in {"yes", "no"} :
         IF monitor = "yes"
         THEN /\ mon' = [MonIdle EXCEPT !.pc = "poll", !.sl_order_id = live.sl_order_id,
                                        !.tp_order_ids = live.tp_order_ids]
              /\ live' = [live EXCEPT !.pc = "append"]
         ELSE /\ live' = Return(live, TRUE, "not_monitored")
              /\ UNCHANGED mon
    /\ UNCHANGED <<signal_row, bt, broker, active_monitors, ledger, handoff, threads, system, pool>>

\* the record execute_trade stores for a monitor
monitor_info(sl_order_id, tp_order_ids) ==
    [sl_order_id |-> sl_order_id, tp_order_ids |-> tp_order_ids,
     filled_tps |-> 0, total_tps |-> 4, sl_status |-> "Active"]

\* execute_trade, lines 662-685: the record is appended after the start
ET_Append ==
    /\ live.pc = "append"
    /\ active_monitors' = Append(active_monitors,
                                 monitor_info(live.sl_order_id, live.tp_order_ids))
    /\ live' = Return(live, TRUE, "monitored")
    /\ UNCHANGED <<signal_row, bt, broker, mon, ledger, handoff, threads, system, pool>>

(***************************************************************************)
(* tradingbotTest.py: monitor_and_manage_orders (the monitor thread)       *)
(***************************************************************************)

SeqToSet(q) == {q[i] : i \in 1..Len(q)}

\* _update_monitor_status: the first record of (symbol, sl_order_id)
update_monitor_status(monitors, sl_order_id, filled_tps, sl_active, sl_filled) ==
    LET hits == {i \in 1..Len(monitors) : monitors[i].sl_order_id = sl_order_id}
    IN IF hits = {} THEN monitors
       ELSE LET i == CHOOSE j \in hits : \A k \in hits : j <= k
            IN [monitors EXCEPT ![i].filled_tps = filled_tps,
                                ![i].sl_status = IF sl_filled THEN "Filled"
                                                 ELSE IF sl_active THEN "Active"
                                                 ELSE "Cancelled/Unknown"]

\* _remove_monitor: the list it builds
RECURSIVE without_monitor(_, _)
without_monitor(monitors, sl_order_id) ==
    IF monitors = << >> THEN << >>
    ELSE IF Head(monitors).sl_order_id = sl_order_id
         THEN without_monitor(Tail(monitors), sl_order_id)
         ELSE <<Head(monitors)>> \o without_monitor(Tail(monitors), sl_order_id)

\* monitor_and_manage_orders, lines 339-361: what one poll sees.  `failed`
\* holds the orders whose status request got no answer.
observe(b, sl_order_id, tp_order_ids, failed) ==
    LET seen(id) == IF id \in failed THEN "None" ELSE b.orders[id].status
    IN [polled |-> TRUE,
        filled_tps |-> Cardinality({i \in 1..Len(tp_order_ids) :
                                        seen(tp_order_ids[i]) = "FILLED"}),
        active_tp_ids |-> {id \in SeqToSet(tp_order_ids) : seen(id) \in ActiveStatuses},
        sl_filled |-> seen(sl_order_id) = "FILLED",
        sl_active |-> seen(sl_order_id) \in ActiveStatuses,
        failed |-> failed]

\* monitor_and_manage_orders, lines 370-429: the scenario a poll ends in
scenario(obs) ==
    IF obs.filled_tps = 4 THEN "all_tps_filled"
    ELSE IF obs.sl_filled THEN "stopped_out"
    ELSE IF ~obs.sl_active /\ obs.active_tp_ids = {} THEN "nothing_active"
    ELSE "continue"

\* a monitor that leaves the take-profit orders open when the stop has filled
to_cancel_stop_only(obs, sl_order_id) ==
    CASE scenario(obs) = "all_tps_filled" -> IF obs.sl_active THEN {sl_order_id} ELSE {}
      [] OTHER                            -> {}

\* a monitor that sends a cancel for the stop order when nothing is active
to_cancel_when_nothing_active(obs, sl_order_id) ==
    CASE scenario(obs) = "all_tps_filled" -> IF obs.sl_active THEN {sl_order_id} ELSE {}
      [] scenario(obs) = "stopped_out"    -> obs.active_tp_ids
      [] scenario(obs) = "nothing_active" -> {sl_order_id}
      [] OTHER                            -> {}

\* the orders the scenario sends a cancel for
to_cancel(obs, sl_order_id) ==
    CASE scenario(obs) = "all_tps_filled" -> IF obs.sl_active THEN {sl_order_id} ELSE {}
      [] scenario(obs) = "stopped_out"    -> obs.active_tp_ids
      [] OTHER                            -> {}

CancelAll(b, ids) ==
    [b EXCEPT !.orders = [id \in AllOrderIds |->
                            IF id \in ids THEN [b.orders[id] EXCEPT !.status = "CANCELED"]
                            ELSE b.orders[id]]]

\* the status requests of one poll that get no answer: none, the stop
\* order's, the take-profit orders' or all of them
FailurePatterns(sl_order_id, tp_ids) ==
    { {}, {sl_order_id}, tp_ids, {sl_order_id} \cup tp_ids }

\* a monitor that polls again when a cancel of a terminal scenario failed
after_poll_retrying(obs, cancel_failed) ==
    IF scenario(obs) = "continue" \/ cancel_failed # {} THEN "polled" ELSE "remove"

\* monitor_and_manage_orders, lines 389-391, 412-414, 427-429 and 432: a
\* terminal scenario leaves the loop, whatever its cancels answered
after_poll(obs, cancel_failed) ==
    IF scenario(obs) = "continue" THEN "polled" ELSE "remove"

\* one iteration of the loop, lines 333-432, up to the sleep or, when the
\* scenario is terminal, up to the list _remove_monitor has built
M_Poll ==
    /\ mon.pc = "poll"
    /\ \E failed \in FailurePatterns(mon.sl_order_id, SeqToSet(mon.tp_order_ids)) :
         LET obs == observe(broker, mon.sl_order_id, mon.tp_order_ids, failed)
             monitors == update_monitor_status(active_monitors, mon.sl_order_id,
                                               obs.filled_tps, obs.sl_active, obs.sl_filled)
             cancels == to_cancel(obs, mon.sl_order_id)
         IN /\ active_monitors' = monitors
            /\ \E done \in SUBSET {id \in cancels : CanCancel(broker, id)} :
                 /\ broker' = CancelAll(broker, done)
                 /\ mon' = [mon EXCEPT
                              !.pc = after_poll(obs, cancels \ done),
                              !.obs = obs, !.cancels = cancels,
                              !.cancel_failed = cancels \ done,
                              !.snapshot = IF scenario(obs) = "continue" THEN << >>
                                           ELSE without_monitor(monitors, mon.sl_order_id)]
    /\ UNCHANGED <<signal_row, bt, live, ledger, handoff, threads, system, pool>>

\* time.sleep(check_interval), line 432; the locals of the poll are dead
M_Sleep ==
    /\ mon.pc = "polled"
    /\ mon' = [mon EXCEPT !.pc = "poll", !.obs = NoObs, !.cancels = {}, !.cancel_failed = {}]
    /\ UNCHANGED <<signal_row, bt, live, broker, active_monitors, ledger, handoff, threads, system, pool>>

\* an interrupt handler that cancels the orders still open before it leaves
M_Interrupt_Cancelling ==
    /\ mon.pc \in {"poll", "polled"}
    /\ LET open == {id \in {mon.sl_order_id} \cup SeqToSet(mon.tp_order_ids) :
                        CanCancel(broker, id)}
       IN /\ broker' = CancelAll(broker, open)
          /\ mon' = [mon EXCEPT !.pc = "remove", !.obs = NoObs, !.cancels = open,
                                 !.cancel_failed = {},
                                 !.snapshot = without_monitor(active_monitors,
                                                              mon.sl_order_id)]
    /\ UNCHANGED <<signal_row, bt, live, active_monitors, ledger, handoff, threads, system, pool>>

\* monitor_and_manage_orders, lines 434-441: a KeyboardInterrupt between
\* two iterations; the handler calls _remove_monitor and leaves the loop
M_Interrupt ==
    /\ mon.pc \in {"poll", "polled"}
    /\ mon' = [mon EXCEPT !.pc = "remove", !.obs = NoObs, !.cancels = {},
                           !.cancel_failed = {},
                           !.snapshot = without_monitor(active_monitors, mon.sl_order_id)]
    /\ UNCHANGED <<signal_row, bt, live, broker, active_monitors, ledger, handoff, threads, system, pool>>

\* _remove_monitor, line 463: the list is rebound, and the loop is left
\* (the thread ends and its locals with it)
M_Remove ==
    /\ mon.pc = "remove"
    /\ active_monitors' = mon.snapshot
    /\ mon' = [mon EXCEPT !.pc = "retired", !.snapshot = << >>, !.obs = NoObs,
                           !.cancels = {}, !.cancel_failed = {}]
    /\ UNCHANGED <<signal_row, bt, live, broker, ledger, handoff, threads, system, pool>>

(***************************************************************************)
(* The broker's side: fills and cancellations the trader does not decide   *)
(***************************************************************************)

\* Order events that fall into the monitor's sleep are taken after it: the
\* monitor reads nothing while it sleeps.  The trade is followed until
\* execute_trade has returned and its monitor, if any, has retired.
BrokerMayAct ==
    /\ mon.pc # "polled"
    /\ ~(live.pc = "done" /\ mon.pc \in {"idle", "retired"})

ExitOrderIds == AllOrderIds \ {OrderId.entry}

\* the entry order fills, in part or whole
B_EntryFill ==
    /\ BrokerMayAct
    /\ broker.orders[OrderId.entry].status \in ActiveStatuses
    /\ \E s \in {"PARTIALLY_FILLED", "FILLED"} :
         /\ s = "PARTIALLY_FILLED" => broker.orders[OrderId.entry].status = "NEW"
         /\ broker' = [broker EXCEPT
                          !.orders[OrderId.entry].status = s,
                          !.position = IF s = "FILLED" THEN broker.orders[OrderId.entry].qty
                                       ELSE broker.orders[OrderId.entry].qty \div 2]
    /\ UNCHANGED <<signal_row, bt, live, mon, active_monitors, ledger, handoff, threads, system, pool>>

\* the entry order ends without the trader: cancelled by hand, rejected or
\* expired
B_EntryEnd ==
    /\ BrokerMayAct
    /\ broker.orders[OrderId.entry].status \in ActiveStatuses
    /\ \E s \in {"CANCELED", "REJECTED", "EXPIRED"} :
         /\ s = "REJECTED" => broker.orders[OrderId.entry].status = "NEW"
         /\ broker' = [broker EXCEPT !.orders[OrderId.entry].status = s]
    /\ UNCHANGED <<signal_row, bt, live, mon, active_monitors, ledger, handoff, threads, system, pool>>

\* a stop or take-profit order triggers: it reduces the position
B_ExitFill ==
    /\ BrokerMayAct
    /\ broker.position > 0
    /\ \E id \in ExitOrderIds :
         /\ broker.orders[id].status \in ActiveStatuses
         /\ \E s \in {"PARTIALLY_FILLED", "FILLED"} :
              /\ s = "PARTIALLY_FILLED" => broker.orders[id].status = "NEW"
              /\ broker' = [broker EXCEPT
                               !.orders[id].status = s,
                               !.position = IF s # "FILLED" THEN @
                                            ELSE IF @ > broker.orders[id].qty
                                            THEN @ - broker.orders[id].qty ELSE 0]
    /\ UNCHANGED <<signal_row, bt, live, mon, active_monitors, ledger, handoff, threads, system, pool>>

\* a stop or take-profit order is cancelled by hand
B_ExitCancel ==
    /\ BrokerMayAct
    /\ \E id \in ExitOrderIds :
         /\ broker.orders[id].status \in ActiveStatuses
         /\ broker' = CancelAtBroker(broker, id)
    /\ UNCHANGED <<signal_row, bt, live, mon, active_monitors, ledger, handoff, threads, system, pool>>

(***************************************************************************)
(* simple_backtest.py: main, the sequential replay with the balance        *)
(***************************************************************************)

STARTING_BALANCE == 1000
\* `current_balance < 50`, line 138
MIN_BALANCE == 50
\* config_backtest.MAX_CONCURRENT_POSITIONS
MAX_CONCURRENT_POSITIONS == 10
\* the number of rows of the CSV file
MaxSignals == 3

Symbols == {"AAAUSDT", "BBBUSDT"}
\* the realized pnl of one replayed trade, in USDT
PnlChoices == {0 - 960, 0 - 50, 0, 40}

\* the rows of the CSV file after sort_values('datetime'): `datetime` never
\* decreases along the list
SignalLists ==
    { q \in UNION { [1..n -> [symbol : Symbols, datetime : SignalTime..(SignalTime + 1)]] :
                        n \in 1..MaxSignals } :
        \A i \in 1..(Len(q) - 1) : q[i].datetime <= q[i + 1].datetime }

\* what backtest_single_signal_wrapper can return for a signal, or raise
\* ("raised").  simulate_trade gives every entered trade an exit_time, and
\* a no_entry trade none.
WrapperResults(signal) ==
    { [status |-> st, entry_hit |-> FALSE, entry_time |-> None, exit_time |-> None,
       result |-> "none", pnl |-> 0] : st \in {"no_data", "error", "raised"} }
    \cup
    { [status |-> "completed", entry_hit |-> FALSE, entry_time |-> None, exit_time |-> None,
       result |-> "no_entry", pnl |-> 0] }
    \cup
    { r \in [status : {"completed"}, entry_hit : {TRUE}, entry_time : {signal.datetime},
             exit_time : {signal.datetime + 1, signal.datetime + 2},
             result : {"win", "loss", "expired"}, pnl : PnlChoices] :
        /\ r.result = "loss" => r.pnl < 0
        /\ r.result = "win" => r.pnl >= 0 }

LedgerIdle ==
    [pc |-> "idle", signals |-> << >>, idx |-> 1, max_positions |-> MAX_CONCURRENT_POSITIONS,
     current_balance |-> STARTING_BALANCE, open_positions |-> {}, results |-> << >>]

\* an admission test that looks at the open positions only
admission_without_balance(open_positions, max_positions, current_balance) ==
    IF Cardinality(open_positions) >= max_positions THEN "max_positions_reached"
    ELSE "admitted"

\* main, lines 123-147: the two tests a signal passes before it is replayed
admission(open_positions, max_positions, current_balance) ==
    IF Cardinality(open_positions) >= max_positions THEN "max_positions_reached"
    ELSE IF current_balance < MIN_BALANCE THEN "insufficient_balance"
    ELSE "admitted"

\* a balance that takes the gains of the entered trades and not their losses
balance_after_gains_only(current_balance, result) ==
    IF result.status = "completed" /\ result.entry_hit /\ result.pnl > 0
    THEN current_balance + result.pnl
    ELSE current_balance

\* main, lines 154 and 167-168: the balance after a result
balance_after(current_balance, result) ==
    IF result.status = "completed" /\ result.entry_hit
    THEN current_balance + result.pnl
    ELSE current_balance

\* a loop that gives up the batch at a signal without usable price data
next_idx_stops_without_data(idx, n, status) ==
    IF status \in {"no_data", "error", "raised"} THEN n + 1 ELSE idx + 1

\* main, line 111: the loop goes to the next row whatever the result of
\* this one was (`continue`, results.append, or the except branch)
next_idx(idx, n, status) == idx + 1

\* main, lines 111-178: the body of the loop for the signal at `idx`.
\* open_positions is keyed by symbol; `simulated` is whether the signal
\* reached backtest_single_signal_wrapper.
ProcessSignal ==
    /\ ledger.pc = "replay"
    /\ ledger.idx <= Len(ledger.signals)
    /\ LET signal == ledger.signals[ledger.idx]
           skipped(st) == [status |-> st, simulated |-> FALSE, entry_hit |-> FALSE,
                           datetime |-> signal.datetime, exit_time |-> None,
                           pnl |-> 0, balance |-> ledger.current_balance]
           admitted == admission(ledger.open_positions, ledger.max_positions,
                                 ledger.current_balance)
       IN IF admitted # "admitted"
          THEN ledger' = [ledger EXCEPT
                             !.idx = next_idx(@, Len(ledger.signals), admitted),
                             !.results = Append(@, skipped(admitted))]
          ELSE \E result \in WrapperResults(signal) :
                 LET counted == result.status = "completed" /\ result.entry_hit
                     opened == IF counted /\ result.entry_time # None
                               THEN ledger.open_positions \cup {signal.symbol}
                               ELSE ledger.open_positions
                     closed == IF counted /\ result.exit_time # None
                               THEN opened \ {signal.symbol} ELSE opened
                     balance == balance_after(ledger.current_balance, result)
                 IN ledger' = [ledger EXCEPT
                       !.idx = next_idx(@, Len(ledger.signals), result.status),
                       !.open_positions = closed,
                       !.current_balance = balance,
                       !.results = Append(@,
                           [status |-> IF result.status = "raised" THEN "error"
                                       ELSE result.status,
                            simulated |-> TRUE, entry_hit |-> result.entry_hit,
                            datetime |-> signal.datetime,
                            exit_time |-> result.exit_time, pnl |-> result.pnl,
                            balance |-> balance])]
    /\ UNCHANGED <<signal_row, bt, live, broker, mon, active_monitors, handoff, threads, system, pool>>

\* main, line 181: every signal has been processed
ReplayDone ==
    /\ ledger.pc = "replay"
    /\ ledger.idx > Len(ledger.signals)
    /\ ledger' = [ledger EXCEPT !.pc = "done"]
    /\ UNCHANGED <<signal_row, bt, live, broker, mon, active_monitors, handoff, threads, system, pool>>

(***************************************************************************)
(* automatedtrading.py: validate_signal, place_order_from_signal           *)
(***************************************************************************)

\* a take-profit value that is not None but not a positive price
BadPrice == 0 - 1000

\* the signals the parser can hand over
ParsedSignals ==
    [coin_name : {"", "IDOLUSDT.P"}, side : {"LONG", "SHORT", "BUY"},
     entry_price : {None, BadPrice, SignalEntry}, stop_loss : {None, 9000},
     tp : [1..4 -> {None, BadPrice, 11000, 12000}]]

\* validate_signal
validate_signal(signal) ==
    /\ signal.coin_name # ""
    /\ signal.side \in {"LONG", "SHORT"}
    /\ signal.entry_price # None /\ signal.entry_price > 0
    /\ signal.stop_loss # None /\ signal.stop_loss > 0
    /\ \E i \in 1..4 : signal.tp[i] # None

\* get_take_profits: the non-null, positive take-profit prices, in order
RECURSIVE positives(_)
positives(tps) ==
    IF tps = << >> THEN << >>
    ELSE IF Head(tps) # None /\ Head(tps) > 0
         THEN <<Head(tps)>> \o positives(Tail(tps))
         ELSE positives(Tail(tps))

get_take_profits(signal) == positives(signal.tp)

\* place_order_from_signal, lines 349-353: the list padded with None
padded(tp_list) == [i \in 1..4 |-> IF i <= Len(tp_list) THEN tp_list[i] ELSE None]

\* place_order_from_signal, lines 355-361: the three fill-ins, in the
\* order the source makes them
fill_missing(tp_list) ==
    LET t0 == padded(tp_list)
        t1 == IF t0[4] = None /\ t0[3] # None THEN [t0 EXCEPT ![4] = t0[3]] ELSE t0
        t2 == IF t1[3] = None /\ t1[2] # None THEN [t1 EXCEPT ![3] = t1[2]] ELSE t1
        t3 == IF t2[2] = None /\ t2[1] # None THEN [t2 EXCEPT ![2] = t2[1]] ELSE t2
    IN t3

HandoffIdle ==
    [pc |-> "idle",
     signal |-> [coin_name |-> "", side |-> "LONG", entry_price |-> None,
                 stop_loss |-> None, tp |-> <<None, None, None, None>>],
     tp_prices |-> <<None, None, None, None>>]

\* process_message, lines 450-456: the signal is validated
ValidateSignal ==
    /\ handoff.pc = "parsed"
    /\ handoff' = [handoff EXCEPT
                      !.pc = IF validate_signal(handoff.signal) THEN "valid" ELSE "invalid"]
    /\ UNCHANGED <<signal_row, bt, live, broker, mon, active_monitors, ledger, threads, system, pool>>

\* place_order_from_signal, lines 337-390: the take-profit arguments it
\* hands to execute_trade
PlaceOrderFromSignal ==
    /\ handoff.pc = "valid"
    /\ handoff' = [handoff EXCEPT
                      !.pc = "handed",
                      !.tp_prices = fill_missing(get_take_profits(handoff.signal))]
    /\ UNCHANGED <<signal_row, bt, live, broker, mon, active_monitors, ledger, threads, system, pool>>


(***************************************************************************)
(* automatedtrading.py: process_message                                    *)
(***************************************************************************)

\* the number of messages the listener receives
MaxMessages == 3

\* a valid signal, and signals that differ from it in one field
BaseSignal ==
    [coin_name |-> "IDOLUSDT.P", side |-> "LONG", entry_price |-> SignalEntry,
     stop_loss |-> 9000, tp |-> <<11000, 12000, 13000, 14000>>]

MessageSignals ==
    { BaseSignal,
      [BaseSignal EXCEPT !.side = "SHORT", !.stop_loss = 11000,
                         !.tp = <<9000, 8000, 7000, 6000>>],
      [BaseSignal EXCEPT !.tp = <<None, 12000, None, None>>],
      [BaseSignal EXCEPT !.coin_name = ""],
      [BaseSignal EXCEPT !.side = "BUY"],
      [BaseSignal EXCEPT !.entry_price = None],
      [BaseSignal EXCEPT !.entry_price = BadPrice],
      [BaseSignal EXCEPT !.stop_loss = None],
      [BaseSignal EXCEPT !.stop_loss = BadPrice],
      [BaseSignal EXCEPT !.tp = <<None, None, None, None>>] }

\* a message as process_message sees it: its text, and what
\* parser.parse_message returns for it (is_signal, signal)
NoSignal == [BaseSignal EXCEPT !.coin_name = "", !.entry_price = None, !.stop_loss = None,
                               !.tp = <<None, None, None, None>>]
Messages ==
    { [text |-> "",     is_signal |-> FALSE, has_signal |-> FALSE, signal |-> NoSignal],
      [text |-> "chat", is_signal |-> FALSE, has_signal |-> FALSE, signal |-> NoSignal],
      [text |-> "sig",  is_signal |-> TRUE,  has_signal |-> FALSE, signal |-> NoSignal] }
    \cup { [text |-> "sig", is_signal |-> TRUE, has_signal |-> TRUE, signal |-> sig] :
              sig \in MessageSignals }

\* create_signal_id: f"{coin_name}_{side}_{entry_price}_{timestamp}" with
\* timestamp = int(time.time())
create_signal_id(signal, now) ==
    << signal.coin_name, signal.side, signal.entry_price, now >>

\* the parameters of BinanceFuturesTrader.execute_trade, and those of them
\* without a default
execute_trade_parameters ==
    {"symbol", "direction", "leverage", "entry_price", "quantity", "stop_loss_price",
     "tp1_price", "tp2_price", "tp3_price", "tp4_price", "wait_timeout", "auto_monitor"}
execute_trade_required == execute_trade_parameters \ {"wait_timeout", "auto_monitor"}

\* the keyword arguments place_order_from_signal calls execute_trade with
call_keywords ==
    {"symbol", "direction", "leverage", "entry_price", "dollar_amount", "stop_loss_price",
     "tp1_price", "tp2_price", "tp3_price", "tp4_price", "wait_timeout", "auto_monitor"}

\* Python binds a call by keywords: every keyword names a parameter and
\* every parameter without a default is given; otherwise the call raises
\* TypeError before the body runs
binds(keywords, parameters, required) ==
    keywords \subseteq parameters /\ required \subseteq keywords

\* place_order_from_signal, lines 376-401: the call of execute_trade inside
\* try/except.  `trade_ok` is what execute_trade returns when its body
\* runs.  The result: whether the body ran, and the value returned.
place_order_from_signal(signal, trade_ok) ==
    IF binds(call_keywords, execute_trade_parameters, execute_trade_required)
    THEN [entered |-> TRUE, returned |-> trade_ok]
    ELSE [entered |-> FALSE, returned |-> FALSE]

\* a validation that does not ask for a take-profit price
validate_signal_without_tp(signal) ==
    /\ signal.coin_name # ""
    /\ signal.side \in {"LONG", "SHORT"}
    /\ signal.entry_price # None /\ signal.entry_price > 0
    /\ signal.stop_loss # None /\ signal.stop_loss > 0

\* process_message, lines 450-456: the test of the parsed signal
is_valid(signal) == validate_signal(signal)

\* the fields of AutomatedTradingSystem and of its trader process_message
\* reads and writes; `last` describes the message just processed and
\* `attempts` counts the calls of place_order_from_signal by coin, side and
\* entry price
SignalKeys == { << sig.coin_name, sig.side, sig.entry_price >> : sig \in MessageSignals }
KeyOf(signal) == << signal.coin_name, signal.side, signal.entry_price >>

NoMessage ==
    [message |-> [text |-> "", is_signal |-> FALSE, has_signal |-> FALSE,
                  signal |-> NoSignal],
     attempted |-> FALSE, trade_ok |-> FALSE, entered |-> FALSE, returned |-> FALSE]

SystemIdle ==
    [pc |-> "idle", clock |-> 0, received |-> 0, processed_signals |-> {},
     attempts |-> [k \in SignalKeys |-> 0], last |-> NoMessage]

\* process_message for one message.  The handler runs to its end before
\* the next message is taken (place_order_from_signal is a blocking call
\* inside the coroutine).  `dt` is the time since the message before, in
\* whole seconds of int(time.time()).
ProcessMessage ==
    /\ system.pc = "listening"
    /\ system.received < MaxMessages
    /\ \E message \in Messages, dt \in {0, 1}, trade_ok \in BOOLEAN :
         LET now == system.clock + dt
             signal == message.signal
             signal_id == create_signal_id(signal, now)
             reaches_id == /\ message.text # "" /\ message.is_signal
                           /\ message.has_signal /\ is_valid(signal)
             attempted == reaches_id /\ signal_id \notin system.processed_signals
             placed == place_order_from_signal(signal, trade_ok)
         IN system' = [system EXCEPT
               !.clock = now,
               !.received = @ + 1,
               !.processed_signals = IF attempted THEN @ \cup {signal_id} ELSE @,
               !.attempts = IF attempted THEN [@ EXCEPT ![KeyOf(signal)] = @ + 1] ELSE @,
               !.last = [message |-> message, attempted |-> attempted,
                         trade_ok |-> attempted /\ trade_ok,
                         entered |-> attempted /\ placed.entered,
                         returned |-> attempted /\ placed.returned]]
    /\ UNCHANGED <<signal_row, bt, live, broker, mon, active_monitors, ledger, handoff, threads, pool>>

\* start_monitoring: the listener stops
StopListening ==
    /\ system.pc = "listening"
    /\ system' = [system EXCEPT !.pc = "stopped"]
    /\ UNCHANGED <<signal_row, bt, live, broker, mon, active_monitors, ledger, handoff, threads, pool>>

(***************************************************************************)
(* backtest_engine.py: backtest_signal, check_entry_hit, simulate_trade    *)
(***************************************************************************)
(* tradingbotTest.py: the registry shared by several trades                *)
(***************************************************************************)

\* the number of trades whose threads run side by side
MaxTrades == 2
Trades == 1..MaxTrades

\* the stop order id of a trade; a record of the registry is named by it
SlOrderOf(t) == 10 + t

\* per trade: `pc` of its execute_trade thread, `mon` of its monitor
\* thread, and the list _remove_monitor has built but not yet stored
ThreadsIdle ==
    [t \in Trades |-> [pc |-> "idle", mon |-> "idle", filtered |-> << >>]]

\* _remove_monitor, line 463, right-hand side: the list without the records
\* of one stop order
RECURSIVE without_id(_, _)
without_id(ids, sl_order_id) ==
    IF ids = << >> THEN << >>
    ELSE IF Head(ids) = sl_order_id THEN without_id(Tail(ids), sl_order_id)
         ELSE <<Head(ids)>> \o without_id(Tail(ids), sl_order_id)

\* execute_trade, line 660: monitor_thread.start()
R_StartMonitor(t) ==
    /\ threads[t].pc = "start"
    /\ threads' = [threads EXCEPT ![t].pc = "append", ![t].mon = "poll"]
    /\ UNCHANGED <<signal_row, bt, live, broker, mon, active_monitors, ledger, handoff, system, pool>>

\* execute_trade, line 676: self.active_monitors.append(monitor_info)
R_Append(t) ==
    /\ threads[t].pc = "append"
    /\ active_monitors' = Append(active_monitors, SlOrderOf(t))
    /\ threads' = [threads EXCEPT ![t].pc = "done"]
    /\ UNCHANGED <<signal_row, bt, live, broker, mon, ledger, handoff, system, pool>>

\* monitor_and_manage_orders: a poll ends in a terminal scenario and
\* _remove_monitor evaluates the list comprehension of line 463
R_Filter(t) ==
    /\ threads[t].mon = "poll"
    /\ threads' = [threads EXCEPT ![t].mon = "rebind",
                                  ![t].filtered = without_id(active_monitors, SlOrderOf(t))]
    /\ UNCHANGED <<signal_row, bt, live, broker, mon, active_monitors, ledger, handoff, system, pool>>

\* _remove_monitor, line 463, the assignment to self.active_monitors; the
\* thread then leaves its loop
R_Rebind(t) ==
    /\ threads[t].mon = "rebind"
    /\ active_monitors' = threads[t].filtered
    /\ threads' = [threads EXCEPT ![t].mon = "retired", ![t].filtered = << >>]
    /\ UNCHANGED <<signal_row, bt, live, broker, mon, ledger, handoff, system, pool>>

(***************************************************************************)

\* the locals before backtest_signal has run
BtIdle ==
    [pc |-> "start", status |-> "none", result |-> "none",
     entry_price |-> None, used_market_price |-> FALSE,
     tp_price |-> None, sl_price |-> None, tp_levels |-> << >>,
     entry_hit |-> FALSE, entry_time |-> None, entry_index |-> None,
     time_limit |-> None,
     remaining_position |-> FullPosition, total_pnl |-> 0,
     current_sl |-> None, current_tp_index |-> 0,
     exit_time |-> None, exit_price |-> None,
     last |-> [timestamp |-> None, high |-> None, low |-> None, close |-> None],
     closed |-> << >>]

\* the ladder of the running simulation
Targets(b) == tp_targets(b.tp_levels, b.tp_price, b.entry_price)

\* an entry test every bar passes
entry_hit_by_any_bar(side, entry_price, row) == TRUE

\* check_entry_hit: the test of one row
entry_hit_by(side, entry_price, row) ==
    IF side = "long" THEN row.low <= entry_price ELSE row.high >= entry_price

\* simulate_trade, lines 196-203, and the result backtest_signal builds
no_entry(b) ==
    [b EXCEPT !.pc = "done", !.status = "completed", !.result = "no_entry",
              !.entry_hit = FALSE, !.total_pnl = 0, !.exit_time = None]

\* a forced close that reports the pnl of the remaining part alone
force_close_forgets_partials(b, side, ts, price) ==
    [b EXCEPT !.pc = "done", !.status = "completed", !.result = "expired",
              !.total_pnl = PnlOf(side, b.entry_price, price, b.remaining_position),
              !.exit_time = ts, !.exit_price = price,
              !.closed = Append(@, [kind |-> "expired", amount |-> b.remaining_position,
                                    price |-> price])]

\* simulate_trade, lines 235-253 and 332-352: forced close at a close price
force_close(b, side, ts, price) ==
    [b EXCEPT !.pc = "done", !.status = "completed", !.result = "expired",
              !.total_pnl = @ + PnlOf(side, b.entry_price, price, b.remaining_position),
              !.exit_time = ts, !.exit_price = price,
              !.closed = Append(@, [kind |-> "expired", amount |-> b.remaining_position,
                                    price |-> price])]

\* a stop that always counts as a loss, whatever was realized before it
stop_close_as_loss(b, side, row) ==
    LET pnl == IF Abs(b.current_sl - b.entry_price) < 1 THEN 0
               ELSE PnlOf(side, b.entry_price, b.current_sl, b.remaining_position)
    IN [b EXCEPT !.pc = "done", !.status = "completed", !.result = "loss",
                 !.total_pnl = b.total_pnl + pnl,
                 !.exit_time = row.timestamp, !.exit_price = b.current_sl,
                 !.last = row,
                 !.closed = Append(@, [kind |-> "stop", amount |-> b.remaining_position,
                                       price |-> b.current_sl])]

\* a stop that closes at the close of the bar that reached it
stop_close_at_bar_close(b, side, row) ==
    LET total == b.total_pnl + PnlOf(side, b.entry_price, row.close, b.remaining_position)
    IN [b EXCEPT !.pc = "done", !.status = "completed",
                 !.result = IF total < 0 THEN "loss" ELSE "win",
                 !.total_pnl = total,
                 !.exit_time = row.timestamp, !.exit_price = row.close,
                 !.last = row,
                 !.closed = Append(@, [kind |-> "stop", amount |-> b.remaining_position,
                                       price |-> row.close])]

\* simulate_trade, lines 264-284: the stop closes what remains
stop_close(b, side, row) ==
    \* abs(current_sl - entry_price) < 0.0001: on the integer grid, equality
    LET pnl == IF Abs(b.current_sl - b.entry_price) < 1 THEN 0
               ELSE PnlOf(side, b.entry_price, b.current_sl, b.remaining_position)
        total == b.total_pnl + pnl
    IN [b EXCEPT !.pc = "done", !.status = "completed",
                 !.result = IF total < 0 THEN "loss" ELSE "win",
                 !.total_pnl = total,
                 !.exit_time = row.timestamp, !.exit_price = b.current_sl,
                 !.last = row,
                 !.closed = Append(@, [kind |-> "stop", amount |-> b.remaining_position,
                                       price |-> b.current_sl])]

\* a tier whose pnl is taken on all that remained before it closed its part
tp_close_on_remaining(b, side, row) ==
    LET tp_target == Targets(b)[b.current_tp_index + 1]
        close_amount == (b.remaining_position * tp_target.close_pct) \div 100
        remaining == b.remaining_position - close_amount
        done == remaining < ClosedThreshold
    IN [b EXCEPT !.total_pnl = @ + PnlOf(side, b.entry_price, tp_target.price,
                                         b.remaining_position),
                 !.remaining_position = remaining,
                 !.current_sl = IF tp_target.new_sl # None THEN tp_target.new_sl ELSE @,
                 !.current_tp_index = @ + 1,
                 !.pc = IF done THEN "done" ELSE @,
                 !.status = IF done THEN "completed" ELSE @,
                 !.result = IF done THEN "win" ELSE @,
                 !.exit_time = IF done THEN row.timestamp ELSE @,
                 !.exit_price = IF done THEN tp_target.price ELSE @,
                 !.last = row,
                 !.closed = Append(@, [kind |-> "tp", amount |-> close_amount,
                                       price |-> tp_target.price])]

\* simulate_trade, lines 298-330: the tier at current_tp_index triggers
tp_close(b, side, row) ==
    LET tp_target == Targets(b)[b.current_tp_index + 1]
        close_amount == (b.remaining_position * tp_target.close_pct) \div 100
        remaining == b.remaining_position - close_amount
        done == remaining < ClosedThreshold
    IN [b EXCEPT !.total_pnl = @ + PnlOf(side, b.entry_price, tp_target.price, close_amount),
                 !.remaining_position = remaining,
                 !.current_sl = IF tp_target.new_sl # None THEN tp_target.new_sl ELSE @,
                 !.current_tp_index = @ + 1,
                 !.pc = IF done THEN "done" ELSE @,
                 !.status = IF done THEN "completed" ELSE @,
                 !.result = IF done THEN "win" ELSE @,
                 !.exit_time = IF done THEN row.timestamp ELSE @,
                 !.exit_price = IF done THEN tp_target.price ELSE @,
                 !.last = row,
                 !.closed = Append(@, [kind |-> "tp", amount |-> close_amount,
                                       price |-> tp_target.price])]

sl_hit(b, side, row) ==
    IF side = "long" THEN row.low <= b.current_sl ELSE row.high >= b.current_sl

tp_hit(b, side, row) ==
    /\ b.current_tp_index < Len(Targets(b))
    /\ b.remaining_position > 0
    /\ IF side = "long" THEN row.high >= Targets(b)[b.current_tp_index + 1].price
                         ELSE row.low <= Targets(b)[b.current_tp_index + 1].price

\* a loop body that expires the position at the time limit, not after it
track_row_expires_at_limit(b, side, row) ==
    IF row.timestamp >= b.time_limit
    THEN force_close([b EXCEPT !.last = row], side, row.timestamp, row.close)
    ELSE IF sl_hit(b, side, row) THEN stop_close(b, side, row)
    ELSE IF tp_hit(b, side, row) THEN tp_close(b, side, row)
    ELSE [b EXCEPT !.last = row]

\* a loop body that tests the tier before the stop
track_row_tp_first(b, side, row) ==
    IF row.timestamp > b.time_limit
    THEN force_close([b EXCEPT !.last = row], side, row.timestamp, row.close)
    ELSE IF tp_hit(b, side, row) THEN tp_close(b, side, row)
    ELSE IF sl_hit(b, side, row) THEN stop_close(b, side, row)
    ELSE [b EXCEPT !.last = row]

\* a loop body that tests the relocated stop against the bar that
\* triggered the tier
track_row_retests_stop(b, side, row) ==
    IF row.timestamp > b.time_limit
    THEN force_close([b EXCEPT !.last = row], side, row.timestamp, row.close)
    ELSE IF sl_hit(b, side, row) THEN stop_close(b, side, row)
    ELSE IF tp_hit(b, side, row)
         THEN LET b1 == tp_close(b, side, row)
              IN IF b1.pc = "track" /\ sl_hit(b1, side, row)
                 THEN stop_close(b1, side, row) ELSE b1
    ELSE [b EXCEPT !.last = row]

\* simulate_trade, lines 233-330: the body of the loop for one row
track_row(b, side, row) ==
    IF row.timestamp > b.time_limit
    THEN force_close([b EXCEPT !.last = row], side, row.timestamp, row.close)
    ELSE IF sl_hit(b, side, row) THEN stop_close(b, side, row)
    ELSE IF tp_hit(b, side, row) THEN tp_close(b, side, row)
    ELSE [b EXCEPT !.last = row]

\* a simulation whose loop starts at the entry candle itself
open_position_scans_entry_bar(b, entry_time, candle) ==
    track_row([b EXCEPT !.pc = "track", !.entry_hit = TRUE, !.entry_time = entry_time,
                        !.entry_index = candle.timestamp,
                        !.time_limit = entry_time + HoursLimit,
                        !.remaining_position = FullPosition, !.total_pnl = 0,
                        !.current_sl = b.sl_price, !.current_tp_index = 0,
                        !.last = candle],
              signal_row.side, candle)

\* simulate_trade, lines 205-233: the position as the entry fills.
\* `candle` is the entry candle, the first row of after_entry, which the
\* loop over after_entry.iloc[1:] skips; entry_index stands for its place
\* in the price data.
open_position(b, entry_time, candle) ==
    [b EXCEPT !.pc = "track", !.entry_hit = TRUE, !.entry_time = entry_time,
              !.entry_index = candle.timestamp,
              !.time_limit = entry_time + HoursLimit,
              !.remaining_position = FullPosition, !.total_pnl = 0,
              !.current_sl = b.sl_price, !.current_tp_index = 0,
              !.last = candle]

\* a loop that goes on reading rows after the trade has closed
in_loop_after_return(b) == b.pc = "track" \/ (b.pc = "done" /\ b.entry_hit)

\* simulate_trade, lines 233-330: the loop reads the next row only while
\* no branch of its body has returned
in_loop(b) == b.pc = "track"

\* the timestamps the next row of the price data can carry: ascending,
\* with gaps tolerated
NextTimes(after) == { t \in {after + 1, after + 2} : t <= MaxTime }

\* backtest_signal, lines 400-444: the entry price, the targets and the
\* first row examined.  `candle` is the row the market price is read from.
backtest_signal_at(b, row, candle) ==
    LET side == row.side
        ts == candle.timestamp
        percents == wrapper_percents(row)
        market_price == candle.close
        sel == IF USE_BETTER_MARKET_PRICE
               THEN select_better_entry_price(row.entry, market_price, side)
               ELSE << row.entry, FALSE >>
        tpsl == calculate_default_tp_sl(sel[1], side, percents[1], percents[2])
        b1 == [b EXCEPT !.entry_price = sel[1], !.used_market_price = sel[2],
                        !.tp_price = tpsl[1], !.sl_price = tpsl[2],
                        !.tp_levels = wrapper_tp_levels(row)]
    IN IF sel[2]
       THEN IF ts <= row.datetime
            THEN open_position(b1, row.datetime, candle)
            ELSE open_position(b1, candle.timestamp, candle)
       ELSE IF ts >= row.datetime /\ entry_hit_by(side, sel[1], candle)
            THEN open_position(b1, candle.timestamp, candle)
            ELSE [b1 EXCEPT !.pc = "check_entry", !.last = candle]

\* backtest_single_signal_wrapper and backtest_signal up to the first row
\* check_entry_hit examines.  `candle` is the latest row at or before the
\* signal time or, when there is none, the first row after it.
BacktestSignal ==
    /\ bt.pc = "start"
    /\ \E data \in {"ok", "empty", "error"} :
         CASE data = "error" -> bt' = [bt EXCEPT !.pc = "done", !.status = "error"]
           [] data = "empty" -> bt' = [bt EXCEPT !.pc = "done", !.status = "no_data"]
           [] data = "ok" ->
                \E ts \in {SignalTime - 1, SignalTime, SignalTime + 1} :
                \E candle \in Bars(signal_row.side, ts) :
                    bt' = backtest_signal_at(bt, signal_row, candle)
    /\ UNCHANGED <<signal_row, live, broker, mon, active_monitors, ledger, handoff, threads, system, pool>>

\* check_entry_hit: one more row at or after the signal time
CheckEntryRow ==
    /\ bt.pc = "check_entry"
    /\ \E ts \in NextTimes(bt.last.timestamp) :
       \E row \in Bars(signal_row.side, ts) :
          bt' = IF entry_hit_by(signal_row.side, bt.entry_price, row)
                THEN open_position(bt, row.timestamp, row)
                ELSE [bt EXCEPT !.last = row]
    /\ UNCHANGED <<signal_row, live, broker, mon, active_monitors, ledger, handoff, threads, system, pool>>

\* check_entry_hit: the rows are exhausted without a hit
CheckEntryEnd ==
    /\ bt.pc = "check_entry"
    /\ bt' = no_entry(bt)
    /\ UNCHANGED <<signal_row, live, broker, mon, active_monitors, ledger, handoff, threads, system, pool>>

\* simulate_trade: one iteration of the loop over after_entry.iloc[1:]
TrackRow ==
    /\ in_loop(bt)
    /\ \E ts \in NextTimes(bt.last.timestamp) :
       \E row \in Bars(signal_row.side, ts) :
          bt' = track_row(bt, signal_row.side, row)
    /\ UNCHANGED <<signal_row, live, broker, mon, active_monitors, ledger, handoff, threads, system, pool>>

\* simulate_trade: the loop ends with the position open, lines 332-352
TrackEnd ==
    /\ bt.pc = "track"
    /\ bt' = force_close(bt, signal_row.side, bt.last.timestamp, bt.last.close)
    /\ UNCHANGED <<signal_row, live, broker, mon, active_monitors, ledger, handoff, threads, system, pool>>

(***************************************************************************)
(* run_backtest.py, download_price_data.py: the parallel replay            *)
(***************************************************************************)

\* the threads of the pool that replay a signal of the same symbol and
\* minute, and the number of rows of its price data
MaxWorkers == 2
MaxRows == 3
Workers == 1..MaxWorkers

\* the rows the price source can hold for one minute
RowChoices(ts) ==
    { [timestamp |-> ts, high |-> 10000, low |-> 10000, close |-> 10000],
      [timestamp |-> ts, high |-> 14000, low |-> 10000, close |-> 12000],
      [timestamp |-> ts, high |-> 10000, low |-> 8000,  close |-> 9000] }

\* the price data of the symbol from the signal minute on
PriceData ==
    { d \in [1..MaxRows -> UNION {RowChoices(SignalTime + i - 1) : i \in 1..MaxRows}] :
        \A i \in 1..MaxRows : d[i].timestamp = SignalTime + i - 1 }

\* the signals replayed in parallel: with and without a ladder in the CSV
PoolSignals ==
    { r \in RowsOf("long") : r.tp \in {<<11000, 12000, 13000, 14000>>,
                                        <<11000, 12000, None, None>>}
                             /\ r.stop_loss = 9000 }

\* check_entry_hit and simulate_trade over the rows that follow the first
RECURSIVE replay_rows(_, _, _)
replay_rows(b, side, rows) ==
    IF b.pc = "done" THEN b
    ELSE IF rows = << >>
         THEN IF b.pc = "track"
              THEN force_close(b, side, b.last.timestamp, b.last.close)
              ELSE no_entry(b)
    ELSE IF b.pc = "track"
         THEN replay_rows(track_row(b, side, Head(rows)), side, Tail(rows))
    ELSE replay_rows(IF entry_hit_by(side, b.entry_price, Head(rows))
                     THEN open_position(b, Head(rows).timestamp, Head(rows))
                     ELSE [b EXCEPT !.last = Head(rows)],
                     side, Tail(rows))

\* backtest_signal over price data that starts at the signal minute
backtest_signal(row, data) ==
    IF data = << >> THEN [BtIdle EXCEPT !.pc = "done", !.status = "no_data"]
    ELSE replay_rows(backtest_signal_at(BtIdle, row, data[1]), row.side, Tail(data))

\* the result dictionary of a replay
Outcome(b) ==
    [status |-> b.status, result |-> b.result, entry_hit |-> b.entry_hit,
     pnl |-> b.total_pnl, exit_time |-> b.exit_time, exit_price |-> b.exit_price]

ErrorOutcome ==
    [status |-> "error", result |-> "none", entry_hit |-> FALSE,
     pnl |-> 0, exit_time |-> None, exit_price |-> None]

\* the rows a reader gets from the cache file: those written without a gap
\* from the start of the file
readable(rows) ==
    LET ks == {k \in 0..MaxRows : 1..k \subseteq rows}
    IN CHOOSE k \in ks : \A j \in ks : j <= k

PoolIdle ==
    [row |-> SignalIdle, prices |-> << >>,
     file |-> [exists |-> FALSE, rows |-> {}],
     workers |-> [w \in Workers |->
                    [pc |-> "idle", data |-> << >>, written |-> 0,
                     result |-> ErrorOutcome]]]

\* load_cache, lines 136-156: os.path.exists and pd.read_csv.  A file that
\* is being written gives the rows written so far; an empty file makes
\* read_csv raise, which backtest_signal turns into status error.
P_LoadCache(w) ==
    /\ pool.workers[w].pc = "load"
    /\ pool' = IF ~pool.file.exists
               THEN [pool EXCEPT !.workers[w].pc = "download"]
               ELSE IF readable(pool.file.rows) = 0
               THEN [pool EXCEPT !.workers[w].pc = "done",
                                 !.workers[w].result = ErrorOutcome]
               ELSE [pool EXCEPT !.workers[w].pc = "replay",
                                 !.workers[w].data =
                                     SubSeq(pool.prices, 1, readable(pool.file.rows))]
    /\ UNCHANGED <<signal_row, bt, live, broker, mon, active_monitors, ledger, handoff, threads, system>>

\* download_data_for_signal, lines 106-128: the price source answers
P_Download(w) ==
    /\ pool.workers[w].pc = "download"
    /\ pool' = [pool EXCEPT !.workers[w].pc = "save", !.workers[w].data = pool.prices]
    /\ UNCHANGED <<signal_row, bt, live, broker, mon, active_monitors, ledger, handoff, threads, system>>

\* save_cache, line 134: df.to_csv opens the file for writing, which
\* creates it or empties it
P_SaveOpen(w) ==
    /\ pool.workers[w].pc = "save"
    /\ pool' = [pool EXCEPT !.workers[w].pc = "write", !.workers[w].written = 0,
                            !.file = [exists |-> TRUE, rows |-> {}]]
    /\ UNCHANGED <<signal_row, bt, live, broker, mon, active_monitors, ledger, handoff, threads, system>>

\* save_cache, line 134: df.to_csv writes the next part of the file at
\* the writer's own offset; after the last part download_with_cache
\* returns the downloaded frame
P_SaveWrite(w) ==
    /\ pool.workers[w].pc = "write"
    /\ LET k == pool.workers[w].written + 1
       IN pool' = [pool EXCEPT !.file.rows = @ \cup {k},
                               !.workers[w].written = k,
                               !.workers[w].pc = IF k = MaxRows THEN "replay" ELSE "write"]
    /\ UNCHANGED <<signal_row, bt, live, broker, mon, active_monitors, ledger, handoff, threads, system>>

\* backtest_signal, lines 354-478, on the frame download_with_cache
\* returned
P_Replay(w) ==
    /\ pool.workers[w].pc = "replay"
    /\ pool' = [pool EXCEPT !.workers[w].pc = "done",
                            !.workers[w].result =
                                Outcome(backtest_signal(pool.row, pool.workers[w].data))]
    /\ UNCHANGED <<signal_row, bt, live, broker, mon, active_monitors, ledger, handoff, threads, system>>

InitBacktest ==
    /\ signal_row \in SignalRows
    /\ bt = BtIdle
    /\ live = LiveIdle /\ broker = BrokerIdle /\ mon = MonIdle
    /\ active_monitors = << >>
    /\ ledger = LedgerIdle /\ handoff = HandoffIdle
    /\ threads = ThreadsIdle
    /\ system = SystemIdle
    /\ pool = PoolIdle

NextBacktest ==
    \/ BacktestSignal
    \/ CheckEntryRow
    \/ CheckEntryEnd
    \/ TrackRow
    \/ TrackEnd

SpecBacktest == InitBacktest /\ [][NextBacktest]_vars

InitLive ==
    /\ \E args \in LiveArgs : live = [LiveIdle EXCEPT !.pc = "start", !.args = args]
    /\ broker = BrokerIdle /\ mon = MonIdle
    /\ active_monitors = << >>
    /\ signal_row = SignalIdle /\ bt = BtIdle /\ ledger = LedgerIdle /\ handoff = HandoffIdle
    /\ threads = ThreadsIdle
    /\ system = SystemIdle
    /\ pool = PoolIdle

NextLive ==
    \/ ET_Start \/ ET_WaitCheck \/ ET_WaitTimeout \/ ET_Verify
    \/ ET_PlaceStopLoss \/ ET_PlaceTakeProfit \/ ET_NoTakeProfit
    \/ ET_StartMonitor \/ ET_Append
    \/ M_Poll \/ M_Sleep \/ M_Interrupt \/ M_Remove
    \/ B_EntryFill \/ B_EntryEnd \/ B_ExitFill \/ B_ExitCancel

SpecLive == InitLive /\ [][NextLive]_vars

InitLedger ==
    /\ \E q \in SignalLists, m \in {1, MAX_CONCURRENT_POSITIONS} :
          ledger = [LedgerIdle EXCEPT !.pc = "replay", !.signals = q, !.max_positions = m]
    /\ signal_row = SignalIdle /\ bt = BtIdle
    /\ live = LiveIdle /\ broker = BrokerIdle /\ mon = MonIdle
    /\ active_monitors = << >> /\ handoff = HandoffIdle
    /\ threads = ThreadsIdle
    /\ system = SystemIdle
    /\ pool = PoolIdle

NextLedger == ProcessSignal \/ ReplayDone

SpecLedger == InitLedger /\ [][NextLedger]_vars

InitHandoff ==
    /\ \E sig \in ParsedSignals : handoff = [HandoffIdle EXCEPT !.pc = "parsed", !.signal = sig]
    /\ signal_row = SignalIdle /\ bt = BtIdle
    /\ live = LiveIdle /\ broker = BrokerIdle /\ mon = MonIdle
    /\ active_monitors = << >> /\ ledger = LedgerIdle
    /\ threads = ThreadsIdle
    /\ system = SystemIdle
    /\ pool = PoolIdle

NextHandoff == ValidateSignal \/ PlaceOrderFromSignal

SpecHandoff == InitHandoff /\ [][NextHandoff]_vars

InitRegistry ==
    /\ threads = [t \in Trades |-> [pc |-> "start", mon |-> "idle", filtered |-> << >>]]
    /\ active_monitors = << >>
    /\ signal_row = SignalIdle /\ bt = BtIdle
    /\ live = LiveIdle /\ broker = BrokerIdle /\ mon = MonIdle
    /\ ledger = LedgerIdle /\ handoff = HandoffIdle
    /\ system = SystemIdle
    /\ pool = PoolIdle

NextRegistry ==
    \E t \in Trades : R_StartMonitor(t) \/ R_Append(t) \/ R_Filter(t) \/ R_Rebind(t)

SpecRegistry == InitRegistry /\ [][NextRegistry]_vars

InitSystem ==
    /\ system = [SystemIdle EXCEPT !.pc = "listening"]
    /\ signal_row = SignalIdle /\ bt = BtIdle
    /\ live = LiveIdle /\ broker = BrokerIdle /\ mon = MonIdle
    /\ active_monitors = << >>
    /\ ledger = LedgerIdle /\ handoff = HandoffIdle
    /\ threads = ThreadsIdle
    /\ pool = PoolIdle

NextSystem == ProcessMessage \/ StopListening

SpecSystem == InitSystem /\ [][NextSystem]_vars

InitPool ==
    /\ \E row \in PoolSignals, prices \in PriceData :
          pool = [PoolIdle EXCEPT !.row = row, !.prices = prices,
                                  !.workers = [w \in Workers |-> [@[w] EXCEPT !.pc = "load"]]]
    /\ signal_row = SignalIdle /\ bt = BtIdle
    /\ live = LiveIdle /\ broker = BrokerIdle /\ mon = MonIdle
    /\ active_monitors = << >>
    /\ ledger = LedgerIdle /\ handoff = HandoffIdle
    /\ threads = ThreadsIdle
    /\ system = SystemIdle

NextPool ==
    \E w \in Workers :
        P_LoadCache(w) \/ P_Download(w) \/ P_SaveOpen(w) \/ P_SaveWrite(w) \/ P_Replay(w)

SpecPool == InitPool /\ [][NextPool]_vars

(***************************************************************************)
(* Claims about the historical replay                                      *)
(***************************************************************************)

\* the replay runs the four-tier ladder
FourTier == bt.entry_hit /\ Len(bt.tp_levels) = 4

\* 50%, 25%, 12.5% and 12.5% of the original position, in thousandths
LadderFractions == <<500, 250, 125, 125>>

\* C2: in a four-tier ladder the k-th tier that triggers closes 50%, 25%,
\* 12.5%, 12.5% of the original position; the four fractions sum to the
\* whole position; and once all four tiers have triggered nothing remains
\* and the trade is closed with result win.
C2_LadderFractions ==
    FourTier =>
        /\ \A k \in 1..Len(bt.closed) :
              bt.closed[k].kind = "tp" => bt.closed[k].amount = LadderFractions[k]
        /\ bt.current_tp_index = 4 =>
              /\ bt.closed[1].amount + bt.closed[2].amount
                    + bt.closed[3].amount + bt.closed[4].amount = FullPosition
              /\ bt.remaining_position = 0
              /\ bt.remaining_position < ClosedThreshold
              /\ bt.pc = "done" /\ bt.result = "win"

C2_Witness ==
    FourTier /\ bt.current_tp_index = 4 /\ Len(bt.closed) = 4 /\ bt.result = "win"

\* the stop the ladder prescribes after `k` tiers have triggered
TrailedStop(k) ==
    CASE k = 0 -> bt.sl_price
      [] k = 1 -> bt.entry_price
      [] k = 2 -> bt.tp_levels[1]
      [] k = 3 -> bt.tp_levels[2]
      [] OTHER -> bt.tp_levels[3]

\* C3: in a four-tier ladder the stop is the initial stop before any tier,
\* the entry price after tier 1, the TP1 price after tier 2 and the TP2
\* price after tier 3; and the stop changes only in a step in which a tier
\* triggers.
C3_StopTrails ==
    /\ [](FourTier => bt.current_sl = TrailedStop(bt.current_tp_index))
    /\ [][(bt.pc = "track" /\ bt'.current_sl # bt.current_sl)
            => bt'.current_tp_index = bt.current_tp_index + 1]_vars

C3_Witness ==
    /\ FourTier /\ bt.pc = "track" /\ bt.current_tp_index = 3
    /\ bt.current_sl = bt.tp_levels[2]
    /\ bt.current_sl # bt.sl_price /\ bt.current_sl # bt.entry_price
    /\ bt.current_sl # bt.tp_levels[1]

\* the last partial close of the replay
LastClosed == bt.closed[Len(bt.closed)]

\* `price` lies on the side of the entry price where the position gains
Favorable(price) ==
    IF signal_row.side = "long" THEN price > bt.entry_price ELSE price < bt.entry_price

\* tier 1 of a four-tier ladder triggered, and then the stop at the entry
\* price closed the other half
TierOneThenStop ==
    /\ FourTier /\ bt.pc = "done" /\ Len(bt.closed) = 2
    /\ bt.closed[1].kind = "tp" /\ bt.closed[2].kind = "stop"
    /\ Favorable(bt.tp_levels[1])

\* C12: in a four-tier ladder, long or short, with TP1 on the favorable side
\* of the entry: when tier 1 triggers and a later bar reaches the stop moved
\* to the entry price before tier 2 triggers, the result is win, never loss,
\* the exit price is the entry price, the remaining half contributes a pnl
\* of 0 and the total pnl is the pnl of the tier-1 close alone.
C12_BreakevenStopIsAWin ==
    TierOneThenStop =>
        /\ bt.result = "win"
        /\ bt.exit_price = bt.entry_price
        /\ bt.closed[2] = [kind |-> "stop", amount |-> 500, price |-> bt.entry_price]
        /\ bt.total_pnl = PnlOf(signal_row.side, bt.entry_price, bt.tp_levels[1], 500)
        /\ bt.total_pnl > 0

C12_Witness ==
    TierOneThenStop /\ signal_row.side = "short" /\ bt.last.timestamp > bt.entry_time + 1

\* the stop closed the whole position before any tier triggered
StoppedBeforeAnyTier ==
    /\ bt.entry_hit /\ bt.pc = "done" /\ Len(bt.closed) = 1
    /\ bt.closed[1].kind = "stop"
    /\ ~Favorable(bt.sl_price) /\ bt.sl_price # bt.entry_price

ReachesStop(row, price) ==
    IF signal_row.side = "long" THEN row.low <= price ELSE row.high >= price

\* the bar in bt.last reaches `price` from the side a tier is reached from
ReachesTier(row, price) ==
    IF signal_row.side = "long" THEN row.high >= price ELSE row.low <= price

\* a step of the replay that processes one more bar of the open position
BarStep == bt.pc = "track" /\ bt'.last.timestamp > bt.last.timestamp

\* C14: the first bar after the entry bar whose timestamp is greater than
\* entry_time + hours_limit closes all that remains at the close of that
\* bar with result expired, also when the bar reaches the stop or the next
\* tier; a bar whose timestamp equals entry_time + hours_limit does not
\* expire the position.
C14_ExpiryComesFirst ==
    /\ []( (bt.entry_hit /\ bt.last.timestamp > bt.entry_time + HoursLimit) =>
              /\ bt.pc = "done" /\ bt.result = "expired"
              /\ bt.exit_time = bt.last.timestamp
              /\ bt.exit_price = bt.last.close
              /\ LastClosed = [kind |-> "expired", amount |-> bt.remaining_position,
                               price |-> bt.last.close] )
    /\ [][ (BarStep /\ bt'.last.timestamp <= bt.entry_time + HoursLimit)
              => bt'.result # "expired" ]_vars

C14_Witness ==
    /\ bt.entry_hit /\ bt.last.timestamp > bt.entry_time + HoursLimit
    /\ bt.result = "expired"
    /\ ReachesStop(bt.last, bt.current_sl)
    /\ bt.current_tp_index = 1 /\ ReachesTier(bt.last, bt.tp_levels[2])

\* C15: when one bar (within the time limit) reaches both the current stop
\* and the price of the next tier, the stop fires: all that remains is
\* closed at the current stop, the bar realizes no tier, and the trade is
\* closed.
C15_StopBeforeTier ==
    [][ ( /\ BarStep
          /\ bt'.last.timestamp <= bt.time_limit
          /\ bt.current_tp_index < Len(Targets(bt))
          /\ ReachesStop(bt'.last, bt.current_sl)
          /\ ReachesTier(bt'.last, Targets(bt)[bt.current_tp_index + 1].price) )
        => /\ bt'.pc = "done"
           /\ bt'.exit_price = bt.current_sl
           /\ bt'.current_tp_index = bt.current_tp_index
           /\ bt'.remaining_position = bt.remaining_position
           /\ bt'.closed = Append(bt.closed, [kind |-> "stop",
                                              amount |-> bt.remaining_position,
                                              price |-> bt.current_sl]) ]_vars

C15_Witness ==
    /\ bt.entry_hit /\ bt.pc = "done" /\ LastClosed.kind = "stop"
    /\ bt.current_tp_index = 1 /\ Len(bt.tp_levels) = 4
    /\ bt.last.timestamp <= bt.time_limit
    /\ ReachesTier(bt.last, bt.tp_levels[2])

\* C16: a bar triggers at most one tier, also when its range covers the
\* prices of several remaining tiers; and a stop moved by a tier is not
\* tested against the bar that triggered the tier: after that bar the
\* position is still open unless the tier closed all of it.
C16_OneTierPerBar ==
    [][ bt.pc = "track" =>
          /\ bt'.current_tp_index <= bt.current_tp_index + 1
          /\ bt'.current_tp_index = bt.current_tp_index + 1 =>
                /\ Len(bt'.closed) = Len(bt.closed) + 1
                /\ bt'.closed[Len(bt'.closed)].kind = "tp"
                /\ bt'.pc = IF bt'.remaining_position < ClosedThreshold
                            THEN "done" ELSE "track" ]_vars

C16_Witness ==
    /\ FourTier /\ bt.pc = "track" /\ bt.current_tp_index = 1
    /\ ReachesTier(bt.last, bt.tp_levels[2]) /\ ReachesTier(bt.last, bt.tp_levels[3])
    /\ ReachesStop(bt.last, bt.current_sl)
    /\ Favorable(bt.tp_levels[2])

\* the step in which the replay opens the position; bt'.last is then the
\* entry candle
EntryStep == ~bt.entry_hit /\ bt'.entry_hit

\* the entry candle lies at or after the signal time and reaches the
\* signal's entry price (long: low <= entry; short: high >= entry)
EntryCandleReachesSignalEntry ==
    /\ bt'.last.timestamp >= signal_row.datetime
    /\ IF signal_row.side = "long" THEN bt'.last.low <= signal_row.entry
                                   ELSE bt'.last.high >= signal_row.entry

\* what the ledger replay reads of the finished simulation
ResultForLedger == [status |-> bt.status, entry_hit |-> bt.entry_hit, pnl |-> bt.total_pnl]

\* a finished replay without entry is a no_entry result with pnl 0 and no
\* exit time, and the ledger's balance does not move on it
NoEntryOutcome ==
    /\ (bt.pc = "done" /\ bt.status = "completed" /\ ~bt.entry_hit) => bt.result = "no_entry"
    /\ bt.result = "no_entry" =>
          /\ ~bt.entry_hit /\ bt.total_pnl = 0 /\ bt.exit_time = None
          /\ balance_after(STARTING_BALANCE, ResultForLedger) = STARTING_BALANCE

\* C17, as stated: when no bar at or after the signal time meets the entry
\* condition (long: every low > entry; short: every high < entry) the result
\* is no_entry with pnl 0 and no exit time, and the balance of the ledger
\* replay is unchanged.  Put the other way round: a position is opened only
\* on a bar at or after the signal time that meets the entry condition.
C17_NoEntryWithoutEntryBar ==
    /\ [][EntryStep => EntryCandleReachesSignalEntry]_vars
    /\ []NoEntryOutcome

\* C17, amended: the same, unless the better-market-price policy has filled
\* the entry at the market price of the signal time.
C17_NoEntryWithoutEntryBarOrMarketFill ==
    /\ [][(EntryStep /\ ~bt'.used_market_price) => EntryCandleReachesSignalEntry]_vars
    /\ [](bt.result = "no_entry" => ~bt.used_market_price)
    /\ []NoEntryOutcome

C17_Witness ==
    /\ bt.pc = "done" /\ bt.result = "no_entry"
    /\ bt.last.timestamp > signal_row.datetime + 1
    /\ bt.total_pnl = 0 /\ bt.exit_time = None

\* the replay of an entered trade has returned its outcome
Terminal == bt.pc = "done" /\ bt.entry_hit

\* C23: once the simulation has returned win, loss or expired, no later
\* bar is read and the outcome (result, pnl, exit time, exit price) stays
\* what the terminal bar made it.
C23_TerminalOutcomeIsFinal ==
    [][(Terminal /\ bt.result \in {"win", "loss", "expired"}) => bt' = bt]_vars

C23_Witness ==
    /\ Terminal
    /\ bt.result \in {"win", "loss"}
    /\ bt.exit_time = bt.last.timestamp
    /\ bt.last.timestamp < MaxTime

\* every bar the loop examines lies after the entry candle
ScansAfterEntryBar ==
    (bt.pc = "track" /\ bt'.last # bt.last) => bt'.last.timestamp > bt.entry_index

\* C24, as stated: the stop, tier and time-limit checks start at the bar
\* after the entry bar, and no outcome of an entered trade takes its exit
\* time and exit price from the entry bar.
C24_NoExitOnEntryBar ==
    /\ [][ScansAfterEntryBar]_vars
    /\ [](Terminal => bt.last.timestamp > bt.entry_index)

\* C24, amended: the checks start at the bar after the entry bar, so a win,
\* a loss or a time-limit expiry exits on a later bar; only when no bar
\* follows the entry bar the forced close at the end of the data takes the
\* exit time and the close of the entry bar, for the whole position, with
\* result expired.
C24_NoExitOnEntryBarButEndOfData ==
    /\ [][ScansAfterEntryBar]_vars
    /\ [](Terminal =>
            \/ bt.last.timestamp > bt.entry_index
            \/ /\ bt.last.timestamp = bt.entry_index
               /\ bt.result = "expired"
               /\ bt.exit_time = bt.last.timestamp
               /\ bt.exit_price = bt.last.close
               /\ bt.closed = << [kind |-> "expired", amount |-> FullPosition,
                                  price |-> bt.last.close] >>)

C24_Witness ==
    /\ Terminal
    /\ bt.last.timestamp = bt.entry_index
    /\ bt.result = "expired"
    /\ bt.exit_price # bt.entry_price

\* the loop has run out of bars with the position open
EndOfDataStep == bt.pc = "track" /\ bt'.pc = "done" /\ bt'.last = bt.last

\* the directional move from the entry to `price` times the part closed
\* (thousandths) times notional times leverage / 100, in the units of the
\* header
MovePnl(price, amount) ==
    (IF signal_row.side = "long" THEN price - bt.entry_price ELSE bt.entry_price - price)
        * amount * ((POSITION_SIZE_USDT * LEVERAGE) \div 100)

\* C25: when the bars end with the position open, the outcome is expired,
\* the exit price is the close of the last bar, and the pnl is the pnl the
\* earlier partial closes realized plus that of the remaining part at that
\* close.
C25_EndOfDataExpires ==
    [][EndOfDataStep =>
          /\ bt'.status = "completed" /\ bt'.result = "expired"
          /\ bt'.exit_price = bt.last.close
          /\ bt'.exit_time = bt.last.timestamp
          /\ bt'.total_pnl = bt.total_pnl + MovePnl(bt.last.close, bt.remaining_position)
          /\ bt'.closed = Append(bt.closed, [kind |-> "expired",
                                             amount |-> bt.remaining_position,
                                             price |-> bt.last.close])]_vars

C25_Witness ==
    /\ Terminal /\ bt.result = "expired"
    /\ bt.last.timestamp <= bt.time_limit
    /\ Len(bt.closed) = 3
    /\ bt.closed[1].kind = "tp" /\ bt.closed[2].kind = "tp"
    /\ bt.exit_price = bt.last.close
    /\ bt.total_pnl # MovePnl(bt.last.close, LastClosed.amount)

\* the pnl of one close: a stop close at the entry price counts 0
ClosePnl(c) ==
    IF c.kind = "stop" /\ Abs(c.price - bt.entry_price) < 1 THEN 0
    ELSE MovePnl(c.price, c.amount)

RECURSIVE SumOfPnl(_)
SumOfPnl(closes) ==
    IF closes = << >> THEN 0 ELSE ClosePnl(Head(closes)) + SumOfPnl(Tail(closes))

RECURSIVE SumOfAmounts(_)
SumOfAmounts(closes) ==
    IF closes = << >> THEN 0 ELSE Head(closes).amount + SumOfAmounts(Tail(closes))

\* C26: the pnl of a terminal outcome is the sum of the pnl of its closes
\* (tier closes, stop close, forced close), each the directional move to
\* the close's price on the part closed, a stop close at the entry price
\* counting 0; the parts closed sum to the whole position.
C26_PnlIsTheSumOfTheCloses ==
    Terminal =>
        /\ bt.total_pnl = SumOfPnl(bt.closed)
        /\ SumOfAmounts(bt.closed) = FullPosition

C26_Witness ==
    /\ Terminal /\ Len(bt.closed) = 3
    /\ bt.closed[1].kind = "tp" /\ bt.closed[2].kind = "tp" /\ bt.closed[3].kind = "stop"
    /\ bt.total_pnl > 0

\* the replay runs the single tier
SingleTier == bt.entry_hit /\ Len(bt.tp_levels) = 0

\* C29: the ladder is a single tier exactly when the signal lacks one of
\* tp1..tp4 or the stop; then the stop stays at its initial price, and the
\* first bar that reaches the target (within the time limit, the stop not
\* reached) closes the whole position at the target with result win.
C29_SingleTier ==
    /\ [](bt.pc \in {"track", "check_entry"} =>
            (Len(bt.tp_levels) = 0 <=> ~(has_tp(signal_row) /\ has_sl(signal_row))))
    /\ [](SingleTier =>
            /\ bt.current_sl = bt.sl_price
            /\ \A k \in 1..Len(bt.closed) :
                  bt.closed[k].kind = "tp" =>
                      /\ bt.closed[k] = [kind |-> "tp", amount |-> FullPosition,
                                         price |-> bt.tp_price]
                      /\ bt.pc = "done" /\ bt.result = "win"
                      /\ bt.exit_price = bt.tp_price
                      /\ bt.remaining_position = 0)
    /\ [][( /\ SingleTier /\ BarStep
            /\ bt'.last.timestamp <= bt.time_limit
            /\ ~ReachesStop(bt'.last, bt.current_sl)
            /\ ReachesTier(bt'.last, bt.tp_price) )
          => /\ bt'.pc = "done" /\ bt'.result = "win"
             /\ bt'.closed = << [kind |-> "tp", amount |-> FullPosition,
                                 price |-> bt.tp_price] >>
             /\ bt'.exit_time = bt'.last.timestamp]_vars

C29_Witness ==
    /\ SingleTier /\ bt.pc = "done" /\ bt.result = "win"
    /\ bt.closed = << [kind |-> "tp", amount |-> FullPosition, price |-> bt.tp_price] >>
    /\ bt.last.timestamp > bt.entry_index + 1

\* the step of backtest_signal that reads the market price; bt'.last is
\* the candle it is read from
MarketStep == bt.pc = "start" /\ bt'.pc \in {"track", "check_entry"}

\* `price` is strictly better than the signal's entry price
StrictlyBetter(price) ==
    IF signal_row.side = "long" THEN price < signal_row.entry ELSE price > signal_row.entry

\* the row reaches the signal's entry price
HitsSignalEntry(row) ==
    IF signal_row.side = "long" THEN row.low <= signal_row.entry
                                ELSE row.high >= signal_row.entry

\* without a market fill the entry is the signal's price, and it fills at
\* the first bar at or after the signal time that reaches it
FillsAtSignalPrice ==
    /\ [][(MarketStep /\ ~bt'.used_market_price) =>
            /\ bt'.entry_price = signal_row.entry
            /\ bt'.entry_hit <=> ( /\ bt'.last.timestamp >= signal_row.datetime
                                   /\ HitsSignalEntry(bt'.last) )
            /\ bt'.entry_hit => bt'.entry_time = bt'.last.timestamp]_vars
    /\ [][(bt.pc = "check_entry" /\ bt'.last # bt.last) =>
            /\ bt'.entry_price = signal_row.entry
            /\ bt'.last.timestamp >= signal_row.datetime
            /\ bt'.entry_hit <=> HitsSignalEntry(bt'.last)
            /\ bt'.entry_hit => bt'.entry_time = bt'.last.timestamp]_vars
    /\ [](bt.pc = "check_entry" =>
            ~(bt.last.timestamp >= signal_row.datetime /\ HitsSignalEntry(bt.last)))

AllowedStops ==
    {bt.sl_price, bt.entry_price}
        \cup {bt.tp_levels[i] : i \in {k \in 1..3 : k <= Len(bt.tp_levels)}}

\* C32: in every state of simulate_trade the remaining position lies in
\* [0, 1] and never increases, current_tp_index never decreases and never
\* exceeds the number of tiers, and the current stop is the initial stop,
\* the entry price, TP1, TP2 or TP3.
C32_PositionStateInvariants ==
    /\ [](bt.entry_hit =>
            /\ 0 <= bt.remaining_position /\ bt.remaining_position <= FullPosition
            /\ 0 <= bt.current_tp_index /\ bt.current_tp_index <= Len(Targets(bt))
            /\ bt.current_sl \in AllowedStops)
    /\ [][bt.entry_hit =>
            /\ bt'.remaining_position <= bt.remaining_position
            /\ bt'.current_tp_index >= bt.current_tp_index]_vars

C32_Witness ==
    /\ FourTier /\ bt.pc = "track"
    /\ bt.current_tp_index = 3
    /\ bt.remaining_position = 125
    /\ bt.current_sl = bt.tp_levels[2]
    /\ bt.current_sl # bt.sl_price /\ bt.current_sl # bt.entry_price

\* C8: when the replay opens a position for a signal that carries a
\* stop_loss, the initial stop of the simulation is that stop_loss.
C8_InitialStopIsSignalStop ==
    (bt.entry_hit /\ has_sl(signal_row)) => bt.sl_price = signal_row.stop_loss

(***************************************************************************)
(* Claims about the sequential replay with the balance                     *)
(***************************************************************************)

\* C6: with the limit on concurrent positions at 1, when two signals of the
\* list carry the same time and the replay of the first one opens a
\* position, the second one is recorded as max_positions_reached and is not
\* simulated.
C6_SecondSignalIsRefused ==
    ledger.max_positions = 1 =>
        \A i \in 1..(Len(ledger.results) - 1) :
            ( /\ ledger.results[i].status = "completed"
              /\ ledger.results[i].entry_hit
              /\ ledger.results[i + 1].datetime = ledger.results[i].datetime )
            => ( /\ ledger.results[i + 1].status = "max_positions_reached"
                 /\ ~ledger.results[i + 1].simulated )

\* the sum of the pnl of the results that completed with their entry hit
RECURSIVE RealizedPnl(_)
RealizedPnl(results) ==
    IF results = << >> THEN 0
    ELSE (IF Head(results).status = "completed" /\ Head(results).entry_hit
          THEN Head(results).pnl ELSE 0) + RealizedPnl(Tail(results))

\* the record of the signal the step has just processed
JustProcessed == ledger'.results[Len(ledger'.results)]

\* C18: a signal is replayed only if, at its turn, the balance is at least
\* the position size (50) and the number of open positions is below the
\* limit; otherwise it is recorded as max_positions_reached or
\* insufficient_balance, is not replayed, and the balance and the open
\* positions stay as they were.
C18_AdmissionTests ==
    [][ ledger'.idx = ledger.idx + 1 =>
          LET below_limit == Cardinality(ledger.open_positions) < ledger.max_positions
              enough == ledger.current_balance >= MIN_BALANCE
          IN /\ JustProcessed.simulated <=> (below_limit /\ enough)
             /\ ~JustProcessed.simulated =>
                   /\ JustProcessed.status =
                         IF ~below_limit THEN "max_positions_reached"
                         ELSE "insufficient_balance"
                   /\ ledger'.current_balance = ledger.current_balance
                   /\ ledger'.open_positions = ledger.open_positions
             /\ JustProcessed.simulated =>
                   JustProcessed.status \notin {"max_positions_reached",
                                                "insufficient_balance"} ]_vars

C18_Witness ==
    /\ Len(ledger.results) = 2
    /\ ledger.results[1].simulated /\ ledger.results[1].entry_hit
    /\ ledger.results[2].status = "insufficient_balance" /\ ~ledger.results[2].simulated
    /\ ledger.current_balance = ledger.results[1].balance
    /\ ledger.current_balance < MIN_BALANCE

\* C19: after any prefix of the replay the balance is the starting balance
\* plus the pnl of the processed trades that completed with their entry
\* hit; a closed trade leaves the number of open positions as it was; and
\* no_entry, no_data, error and refused signals leave the balance as it was.
C19_BalanceIsStartPlusRealizedPnl ==
    /\ [](ledger.current_balance = STARTING_BALANCE + RealizedPnl(ledger.results))
    /\ [][ ledger'.idx = ledger.idx + 1 =>
             /\ Cardinality(ledger'.open_positions) = Cardinality(ledger.open_positions)
             /\ ~(JustProcessed.status = "completed" /\ JustProcessed.entry_hit)
                   => ledger'.current_balance = ledger.current_balance ]_vars

C19_Witness ==
    /\ Len(ledger.results) = 3
    /\ ledger.results[1].entry_hit /\ ledger.results[1].pnl > 0
    /\ ledger.results[2].status = "completed" /\ ~ledger.results[2].entry_hit
    /\ ledger.results[3].entry_hit /\ ledger.results[3].pnl < 0
    /\ ledger.current_balance = STARTING_BALANCE + ledger.results[1].pnl + ledger.results[3].pnl

(***************************************************************************)
(* Claims about the hand-over of a parsed signal                           *)
(***************************************************************************)

\* the non-null take-profit prices of a signal, in order
RECURSIVE non_null(_)
non_null(tps) ==
    IF tps = << >> THEN << >>
    ELSE IF Head(tps) # None THEN <<Head(tps)>> \o non_null(Tail(tps))
         ELSE non_null(Tail(tps))

\* C27: a signal whose replay returns no_data (no bars) or error (the
\* fetch or the replay raised) leaves the balance and the open positions as
\* they were, and the loop goes on: when the replay is done every signal of
\* the batch has its result.
C27_NoDataHasNoLedgerEffect ==
    /\ [][( /\ ledger'.results # ledger.results
            /\ JustProcessed.status \in {"no_data", "error"} )
          => /\ JustProcessed.simulated
             /\ ledger'.current_balance = ledger.current_balance
             /\ ledger'.open_positions = ledger.open_positions
             /\ ledger'.idx = ledger.idx + 1
             /\ ledger'.pc = "replay"]_vars
    /\ [](Len(ledger.results) = ledger.idx - 1)
    /\ [](ledger.pc = "done" => Len(ledger.results) = Len(ledger.signals))

C27_Witness ==
    /\ ledger.pc = "done"
    /\ Len(ledger.results) = 3
    /\ ledger.results[1].status = "no_data"
    /\ ledger.results[2].status = "error"
    /\ ledger.results[3].status = "completed" /\ ledger.results[3].entry_hit
    /\ ledger.results[3].pnl # 0
    /\ ledger.current_balance = STARTING_BALANCE + ledger.results[3].pnl

\* the pnl of the entered trades among `results` that have exited at or
\* before time t
RECURSIVE SettledPnl(_, _)
SettledPnl(results, t) ==
    IF results = << >> THEN 0
    ELSE (IF /\ Head(results).status = "completed" /\ Head(results).entry_hit
             /\ Head(results).exit_time <= t
          THEN Head(results).pnl ELSE 0) + SettledPnl(Tail(results), t)

\* C39: the balance a signal with timestamp t is admitted with is the
\* starting balance plus the pnl of exactly the earlier trades whose
\* exit_time is at or before t.
C39_BalanceHoldsOnlySettledPnl ==
    (ledger.pc = "replay" /\ ledger.idx <= Len(ledger.signals)) =>
        ledger.current_balance
            = STARTING_BALANCE
                + SettledPnl(ledger.results, ledger.signals[ledger.idx].datetime)

\* C7: for a validated signal with k of its take-profit prices non-null
\* (and positive), 1 <= k <= 3, the four take-profit arguments handed to
\* execute_trade are all non-null: the first k are the signal's prices and
\* the others repeat the last of them.
C7_MissingTpsRepeatTheLast ==
    LET known == non_null(handoff.signal.tp)
        k == Len(known)
    IN ( /\ handoff.pc = "handed"
         /\ k \in 1..3
         /\ \A i \in 1..k : known[i] > 0 )
       => \A i \in 1..4 :
             /\ handoff.tp_prices[i] # None
             /\ handoff.tp_prices[i] = IF i <= k THEN known[i] ELSE known[k]

(***************************************************************************)
(* Claims about the parallel replay                                        *)
(***************************************************************************)

\* C33: every signal replayed in the thread pool gets the result it gets
\* when it is replayed alone, under every interleaving, also when two
\* signals share the price-cache file.
C33_ParallelReplayIsSequentialReplay ==
    \A w \in Workers :
        pool.workers[w].pc = "done" =>
            pool.workers[w].result = Outcome(backtest_signal(pool.row, pool.prices))

(***************************************************************************)
(* Claims about process_message                                            *)
(***************************************************************************)

\* the message is a parsed signal with a coin name, a side in {LONG,
\* SHORT}, entry_price > 0, stop_loss > 0 and a non-null take-profit
PlaceableSignal(message) ==
    /\ message.text # "" /\ message.is_signal /\ message.has_signal
    /\ message.signal.coin_name # ""
    /\ message.signal.side \in {"LONG", "SHORT"}
    /\ message.signal.entry_price > 0
    /\ message.signal.stop_loss > 0
    /\ \E i \in 1..4 : message.signal.tp[i] # None

\* a step of process_message
MessageStep == system'.received = system.received + 1

\* C34: process_message calls place_order_from_signal only for a parsed
\* signal with a coin name, a side in {LONG, SHORT}, entry_price > 0,
\* stop_loss > 0 and at least one non-null take-profit; for any other
\* message execute_trade is not entered and processed_signals stays as it
\* was.
C34_OnlyValidSignalsArePlaced ==
    [][MessageStep =>
          /\ system'.last.attempted => PlaceableSignal(system'.last.message)
          /\ ~PlaceableSignal(system'.last.message) =>
                /\ ~system'.last.attempted
                /\ ~system'.last.entered
                /\ system'.processed_signals = system.processed_signals
                /\ system'.attempts = system.attempts]_vars

C34_Witness ==
    /\ system.last.attempted
    /\ system.last.message.signal.tp = <<None, 12000, None, None>>
    /\ system.received = 2
    /\ Cardinality(system.processed_signals) = 1

\* C35: deliveries of the same signal (same coin, side and entry price)
\* lead to at most one call of place_order_from_signal.
C35_NoSecondAttempt ==
    \A k \in SignalKeys : system.attempts[k] <= 1

\* C36: for a validated, non-duplicate signal with four take-profit
\* prices, when every broker call succeeds, place_order_from_signal runs
\* execute_trade and returns True.
C36_PlacementRunsExecuteTrade ==
    ( /\ system.last.attempted
      /\ system.last.trade_ok
      /\ \A i \in 1..4 : system.last.message.signal.tp[i] > 0 )
    => /\ system.last.entered
       /\ system.last.returned

(***************************************************************************)
(* Claims about the live trader                                            *)
(***************************************************************************)

\* the share of the original position (thousandths) the replay's ladder
\* closes at each tier of `targets`
RECURSIVE closed_by_tier(_, _)
closed_by_tier(targets, remaining) ==
    IF targets = << >> THEN << >>
    ELSE LET amount == (remaining * Head(targets).close_pct) \div 100
         IN <<amount>> \o closed_by_tier(Tail(targets), remaining - amount)

\* the ladder the replay runs for the arguments of the live trade
LiveLadder == tp_targets(live.args.tp, None, live.args.entry_price)

\* the take-profit orders of the live trade that are filled
FilledTiers == {i \in 1..4 : broker.orders[OrderId.tp[i]].status = "FILLED"}

\* C1: for the same signal and the same prices the live trader takes the
\* exit decisions of the replay: the take-profit order of tier i closes the
\* share of the position the replay's ladder closes at tier i, and once
\* tiers 1..k are filled the open stop order stands at the stop the
\* replay's ladder prescribes after tier k.
C1_LiveExitsAreTheReplayExits ==
    /\ \A i \in 1..4 :
          broker.orders[OrderId.tp[i]].status # "none" =>
              broker.orders[OrderId.tp[i]].qty * FullPosition
                  = live.args.quantity * closed_by_tier(LiveLadder, FullPosition)[i]
    /\ \A k \in 1..4 :
          ( /\ FilledTiers = 1..k
            /\ broker.orders[OrderId.sl].status \in ActiveStatuses )
          => broker.orders[OrderId.sl].price = LiveLadder[k].new_sl

\* C4: when a poll of the monitor finds every take-profit order it was
\* given filled, it sends a cancel for the stop order if that is still
\* open, and it retires.
C4_AllConfiguredTpsFilledRetires ==
    ( /\ mon.obs.polled
      /\ mon.obs.filled_tps = Len(mon.tp_order_ids) )
    => /\ mon.pc = "remove"
       /\ mon.obs.sl_active => mon.sl_order_id \in mon.cancels

\* C5: a poll in which a status request gets no answer neither retires the
\* monitor nor cancels an order: the monitor goes on polling.
C5_FailedQueryKeepsMonitor ==
    ( /\ mon.obs.polled
      /\ mon.obs.failed # {} )
    => /\ mon.pc = "polled"
       /\ mon.cancels = {}

\* a poll saw the stop order filled and fewer than four take-profit orders
\* filled
StopSeenFilled == mon.obs.polled /\ mon.obs.sl_filled /\ mon.obs.filled_tps < 4

\* C20: when a poll sees the stop order FILLED and fewer than four
\* take-profit orders FILLED, the monitor sends a cancel for exactly the
\* take-profit orders that poll saw NEW or PARTIALLY_FILLED, for no other
\* order, and retires.
C20_StopFilledCancelsOpenTps ==
    StopSeenFilled =>
        /\ mon.pc = "remove"
        /\ mon.cancels = mon.obs.active_tp_ids
        /\ mon.cancels \subseteq SeqToSet(mon.tp_order_ids)
        /\ mon.sl_order_id \notin mon.cancels
        /\ mon.snapshot = without_monitor(active_monitors, mon.sl_order_id)

C20_Witness ==
    /\ StopSeenFilled /\ mon.pc = "remove"
    /\ mon.obs.filled_tps = 1
    /\ Cardinality(mon.obs.active_tp_ids) = 2
    /\ Len(mon.tp_order_ids) = 4
    /\ mon.cancels = mon.obs.active_tp_ids

\* no record of the monitor's stop order id is in the list
NoRecordIn(monitors) ==
    \A i \in 1..Len(monitors) : monitors[i].sl_order_id # mon.sl_order_id

\* C21: when a cancel sent at a terminal trigger fails, the monitor leaves
\* the loop in that same poll with the list _remove_monitor has built, which
\* holds no record of it; its next step rebinds the registry to that list
\* and ends the thread, and a retired monitor never polls or cancels again.
C21_FailedCancelDoesNotBlockRetirement ==
    /\ [](mon.cancel_failed # {} =>
            /\ mon.pc = "remove"
            /\ scenario(mon.obs) \in {"all_tps_filled", "stopped_out"}
            /\ NoRecordIn(mon.snapshot))
    /\ [][(mon.cancel_failed # {} /\ mon' # mon) =>
            /\ mon'.pc = "retired"
            /\ NoRecordIn(active_monitors')
            /\ broker' = broker]_vars
    /\ [][mon.pc = "retired" => mon' = mon]_vars

C21_Witness ==
    /\ mon.cancel_failed # {}
    /\ mon.pc = "remove"
    /\ scenario(mon.obs) = "stopped_out"
    /\ \E id \in mon.cancel_failed : broker.orders[id].status \in ActiveStatuses

\* C22: when the stop order is not placed after the entry has filled,
\* execute_trade has returned False: no take-profit order and no stop order
\* exists at the broker, no monitor was started and nothing is registered.
C22_StopLossFailureEndsTheTrade ==
    live.why = "stop_loss_failed" =>
        /\ live.pc = "done"
        /\ live.returned = FALSE
        /\ \A id \in ExitOrderIds : broker.orders[id].status = "none"
        /\ mon.pc = "idle"
        /\ active_monitors = << >>

C22_Witness ==
    /\ live.why = "stop_loss_failed"
    /\ live.pc = "done"
    /\ broker.orders[OrderId.entry].status = "FILLED"
    /\ broker.position # 0

\* the step of the KeyboardInterrupt handler: the loop is left without a
\* poll having ended in a terminal scenario
InterruptStep ==
    /\ mon.pc \in {"poll", "polled"}
    /\ mon'.pc = "remove"
    /\ ~mon'.obs.polled

\* C28: the KeyboardInterrupt path sends no cancel and changes no order at
\* the broker; the monitor leaves the loop with a list that holds no record
\* of it, and its next step rebinds the registry to that list.
C28_InterruptLeavesOrdersAlone ==
    /\ [][InterruptStep =>
            /\ broker' = broker
            /\ mon'.cancels = {}
            /\ NoRecordIn(mon'.snapshot)]_vars
    /\ [][(mon.pc = "remove" /\ mon' # mon) =>
            /\ mon'.pc = "retired"
            /\ NoRecordIn(active_monitors')
            /\ broker' = broker]_vars

C28_Witness ==
    /\ mon.pc = "remove"
    /\ ~mon.obs.polled
    /\ broker.orders[mon.sl_order_id].status \in ActiveStatuses
    /\ \E i \in 1..Len(mon.tp_order_ids) :
          broker.orders[mon.tp_order_ids[i]].status \in ActiveStatuses

\* what a poll saw: the stop order neither active nor filled, no
\* take-profit order active, fewer than four take-profit orders filled
NothingActive(obs) ==
    /\ obs.polled
    /\ ~obs.sl_active /\ ~obs.sl_filled
    /\ obs.active_tp_ids = {}
    /\ obs.filled_tps < 4

\* C31: when a poll finds the stop order neither active nor FILLED and no
\* take-profit order active, with fewer than four take-profit orders
\* FILLED, the monitor leaves the loop with the list _remove_monitor has
\* built, has sent no cancel, and the poll has changed nothing at the broker.
C31_NothingActiveRetiresWithoutCancel ==
    /\ [](NothingActive(mon.obs) =>
            /\ mon.pc = "remove"
            /\ mon.cancels = {}
            /\ NoRecordIn(mon.snapshot))
    /\ [][(mon.pc = "poll" /\ NothingActive(mon'.obs)) => broker' = broker]_vars
    /\ [][(NothingActive(mon.obs) /\ mon' # mon) =>
            /\ mon'.pc = "retired"
            /\ broker' = broker]_vars

C31_Witness ==
    /\ NothingActive(mon.obs)
    /\ mon.obs.failed = {}
    /\ mon.pc = "remove"
    /\ broker.orders[mon.sl_order_id].status = "CANCELED"
    /\ mon.obs.filled_tps = 1

\* the stop or take-profit orders the broker has accepted so far
PlacedExitOrders == {id \in ExitOrderIds : broker.orders[id].status # "none"}
PlacedTpOrders == PlacedExitOrders \ {OrderId.sl}

\* C37: a stop or take-profit order exists only after execute_trade has
\* seen the entry order FILLED and a non-zero position; a take-profit order
\* exists only after the stop order; a monitor runs only for a placed stop
\* order and at least one placed take-profit order.
C37_ProtectiveOrdersFollowTheFill ==
    /\ PlacedExitOrders # {} =>
          /\ live.order_filled /\ live.position # None
          /\ broker.orders[OrderId.entry].status = "FILLED"
    /\ PlacedTpOrders # {} =>
          /\ OrderId.sl \in PlacedExitOrders
          /\ live.sl_order_id = OrderId.sl
    /\ mon.pc # "idle" =>
          /\ mon.sl_order_id \in PlacedExitOrders
          /\ Len(mon.tp_order_ids) >= 1
          /\ SeqToSet(mon.tp_order_ids) \subseteq PlacedTpOrders

C37_Witness ==
    /\ mon.pc = "poll"
    /\ Len(mon.tp_order_ids) = 1
    /\ PlacedTpOrders = {OrderId.tp[3]}
    /\ live.order_filled /\ live.position = LiveQuantity

\* C38: when execute_trade has returned after it placed the stop order, it
\* has sent no cancel for that stop order.
C38_ExecuteTradeKeepsItsStop ==
    (live.pc = "done" /\ live.sl_order_id # None) =>
        live.sl_order_id \notin live.cancels

\* C9: when the entry order is not seen FILLED before the timeout,
\* execute_trade has sent a cancel for it, has placed no stop or
\* take-profit order, has started no monitor, and no position is open.
C9_EntryTimeoutOpensNothing ==
    ( /\ live.pc = "done"
      /\ live.why = "entry_not_filled"
      /\ live.checks >= MaxChecks )
    => /\ OrderId.entry \in live.cancels
       /\ \A id \in ExitOrderIds : broker.orders[id].status = "none"
       /\ mon.pc = "idle"
       /\ live.returned = FALSE
       /\ broker.position = 0

\* C10: once a monitor has retired, the registry get_monitor_status reads
\* holds no record of it.
C10_RetiredMonitorIsNotListed ==
    mon.pc = "retired" =>
        \A i \in 1..Len(active_monitors) :
            active_monitors[i].sl_order_id # mon.sl_order_id

(***************************************************************************)
(* Claims about the registry shared by several trades                      *)
(***************************************************************************)

\* how many records of the registry name the stop order of trade t
RecordsOf(t) ==
    Cardinality({i \in 1..Len(active_monitors) : active_monitors[i] = SlOrderOf(t)})

\* C11: registering a monitor while another one retires loses no record:
\* a registered monitor that is still polling has exactly one record in
\* active_monitors.
C11_PollingMonitorHasItsRecord ==
    \A t \in Trades :
        (threads[t].pc = "done" /\ threads[t].mon = "poll") => RecordsOf(t) = 1

====
